---------------------------- MODULE Spec2Model ----------------------------
(***************************************************************************)
(* Model of chimedb.data_index: the reference-data seeding routines of     *)
(* util.py (update_types, update_inst, update_storage) acting on the       *)
(* tables declared in orm.py, the derived properties of ArchiveAcq, the    *)
(* InfoBase initialiser, md5sum_file, and the filename parsers / type      *)
(* detector of util.py.                                                    *)
(*                                                                         *)
(* The database is the relational engine behind peewee.  It enforces the   *)
(* constraints orm.py declares (primary keys, unique=True columns, foreign *)
(* keys).  What orm.py does not fix and engines differ on -- the number    *)
(* an UPDATE's execute() returns -- is a choice made in Init (backend).    *)
(***************************************************************************)
EXTENDS Integers, Sequences, FiniteSets, TLC

VARIABLES
    AcqType,        \* rows of table AcqType
    FileType,       \* rows of table FileType
    AcqFileTypes,   \* rows of junction table AcqFileTypes
    ArchiveInst,    \* rows of table ArchiveInst
    ArchiveAcq,     \* rows of table ArchiveAcq
    ArchiveFile,    \* rows of table ArchiveFile
    FileInfo,       \* rows of the per-type file info tables, each tagged with its model
    StorageGroup,   \* rows of table StorageGroup
    StorageNode,    \* rows of table StorageNode
    ArchiveFileCopy,            \* rows of table ArchiveFileCopy
    ArchiveFileCopyRequest,     \* rows of table ArchiveFileCopyRequest
    StorageTransferAction,      \* rows of table StorageTransferAction
    txn,            \* the open transactions of concurrent callers, by caller
    call,           \* the locals of the call in progress, <<>> between calls
    backend,        \* which engine the connection talks to
    pre,            \* the tables as they were before the last operation
    log,            \* <<operation, outcome>> of the last two operations, newest first
    nops,           \* number of operator (non-seeding) writes so far
    name,           \* the file / acquisition name handed to a parser
    npieces,        \* number of pieces the name was put together from
    ret             \* what the last parser / detector call returned

\* the tables of the archive proper
archive == <<ArchiveAcq, ArchiveFile, FileInfo, StorageGroup, StorageNode, ArchiveFileCopy,
             ArchiveFileCopyRequest, StorageTransferAction>>

\* what belongs to callers rather than to the database
local == <<txn, call>>

vars == <<AcqType, FileType, AcqFileTypes, ArchiveInst, archive, local, backend, pre, log,
          nops, name, npieces, ret>>

\* Python's None
None == "None"

\* what a call hands back: the value returned (a tuple; <<>> when nothing or
\* None is returned; the exception's message when it raised) and the
\* FileType name it looked up (None when it made no lookup)
Returned(value, get) == [value |-> value, get |-> get]

(***************************************************************************)
(* Bounds of the model                                                     *)
(***************************************************************************)
\* operator writes (rows added by hand) allowed in one behaviour
MaxOps == 3
\* segments a name is assembled from
MaxSegs == 3
\* how many entries of update_inst's instrument list are modelled
NumInst == 3

(***************************************************************************)
(* update_types: the canonical records                                     *)
(***************************************************************************)
typedict(id_, name_, notes, info_class) ==
    [id |-> id_, name |-> name_, info_class |-> info_class, notes |-> notes]

at(id_, name_, notes, info_class) == typedict(id_, name_, notes, info_class)

ft(id_, name_, notes, info_class, pattern) ==
    [id |-> id_, name |-> name_, info_class |-> info_class, notes |-> notes,
     pattern |-> pattern]

acqtypes == <<
    at(1, "corr", "Traditionally hand-tooled correlation products from a correlator.", "CorrAcqInfo"),
    at(2, "hk", "Housekeeping data.", None),
    at(3, "rawadc", "Raw ADC data taken for testing the status of a correlator.", "RawadcAcqInfo"),
    at(5, "weather", "Weather data scraped from the wview archive provided by DRAO.", None),
    at(6, "hkp", "New prometheus based scheme for recording housekeeping data.", None),
    at(7, "digitalgain", "FPGA digital gains from the F-Engine.", None),
    at(8, "gain", "Complex gains from the calibration broker.", None),
    at(9, "flaginput", "Good correlator input flags from the flagging broker.", None),
    at(11, "hfb", "21cm absorber (Hyper Fine Beam) data taken from a correlator.", "HFBAcqInfo") >>

filetypes == <<
    ft(1, "corr", "Traditionally hand-tooled correlation products from a correlator.",
       "CorrFileInfo", "(?P<chunk_number>[0-9]{8})_(?P<freq_number>[0-9]{4})\\.h5"),
    ft(2, "log", "A human-readable log file produced by acquisition software.", None, None),
    ft(3, "hk", "A housekeeping file.", None, None),
    ft(4, "atmel_id",
       "A short file listing the ATMEL ID's and human readable names in an HK acquisition.",
       None, None),
    ft(5, "rawadc", "Raw ADC data taken for testing the status of a correlator.",
       "RawadcFileInfo", "[0-9]{6}\\.h5"),
    ft(6, "pdf", "A portable document file.", None, None),
    ft(10, "weather", "Weather data scraped from the wview archive provided by DRAO.",
       "WeatherFileInfo", "(?P<date>20[1-9][0-9][01][0-9][0-3][0-9])\\.h5"),
    ft(11, "hkp", "Archive of the prometheus housekeeping data.", None, None),
    ft(12, "calibration", "Calibration data products.", "cal_info_class", "[0-9]{8}\\.h5"),
    ft(14, "hfb", "21cm absorber (Hyper Fine Beam) data taken from a correlator.",
       "HFBFileInfo", "hfb_(?P<chunk_number>[0-9]{8})_(?P<freq_number>[0-9]{4})\\.h5") >>

\* The acqtype-to-filetype mapping, <<acqtype name, filetype name>>
acq_file_names == <<
    <<"corr", "corr">>,
    <<"rawadc", "rawadc">>,
    <<"weather", "weather">>,
    <<"digitalgain", "calibration">>,
    <<"gain", "calibration">>,
    <<"flaginput", "calibration">>,
    <<"hfb", "hfb">> >>

(***************************************************************************)
(* The database engine.  A transaction works on a record                   *)
(*   [AcqType, FileType, AcqFileTypes, ArchiveInst, ArchiveAcq, ..., err]  *)
(* err = "ok" until a statement fails; a failed statement leaves the       *)
(* tables as they were and every later statement is skipped (the           *)
(* exception unwinds the Python function).                                 *)
(***************************************************************************)
Tables == [AcqType |-> AcqType, FileType |-> FileType, AcqFileTypes |-> AcqFileTypes,
           ArchiveInst |-> ArchiveInst, ArchiveAcq |-> ArchiveAcq,
           ArchiveFile |-> ArchiveFile, FileInfo |-> FileInfo,
           StorageGroup |-> StorageGroup, StorageNode |-> StorageNode,
           ArchiveFileCopy |-> ArchiveFileCopy,
           ArchiveFileCopyRequest |-> ArchiveFileCopyRequest,
           StorageTransferAction |-> StorageTransferAction]

Begin(t) == [AcqType |-> t.AcqType, FileType |-> t.FileType,
             AcqFileTypes |-> t.AcqFileTypes, ArchiveInst |-> t.ArchiveInst,
             ArchiveAcq |-> t.ArchiveAcq, ArchiveFile |-> t.ArchiveFile,
             FileInfo |-> t.FileInfo, StorageGroup |-> t.StorageGroup,
             StorageNode |-> t.StorageNode, ArchiveFileCopy |-> t.ArchiveFileCopy,
             ArchiveFileCopyRequest |-> t.ArchiveFileCopyRequest,
             StorageTransferAction |-> t.StorageTransferAction,
             err |-> "ok"]

\* the tables a transaction record holds
TablesOf(db) == [AcqType |-> db.AcqType, FileType |-> db.FileType,
                 AcqFileTypes |-> db.AcqFileTypes, ArchiveInst |-> db.ArchiveInst,
                 ArchiveAcq |-> db.ArchiveAcq, ArchiveFile |-> db.ArchiveFile,
                 FileInfo |-> db.FileInfo, StorageGroup |-> db.StorageGroup,
                 StorageNode |-> db.StorageNode, ArchiveFileCopy |-> db.ArchiveFileCopy,
                 ArchiveFileCopyRequest |-> db.ArchiveFileCopyRequest,
                 StorageTransferAction |-> db.StorageTransferAction]

\* ids of the table's rows are pairwise distinct (primary key)
PrimaryKeyOk(rows) == \A r1, r2 \in rows : r1.id = r2.id => r1 = r2

\* names of the table's rows are pairwise distinct (unique=True)
UniqueNameOk(rows) == \A r1, r2 \in rows : r1.name = r2.name => r1 = r2

\* every junction row references an existing AcqType and FileType row
ForeignKeysOk(db) ==
    \A p \in db.AcqFileTypes :
        /\ \E a \in db.AcqType : a.id = p.acq_type
        /\ \E f \in db.FileType : f.id = p.file_type

\* AcqType.name is declared unique=True; FileType.name is not
NameIsUnique(table) == table = "AcqType"

ConstraintsOk(db) ==
    /\ PrimaryKeyOk(db.AcqType)
    /\ UniqueNameOk(db.AcqType)
    /\ PrimaryKeyOk(db.FileType)
    /\ ForeignKeysOk(db)

\* The value Model.update(...).execute() returns: the cursor's rowcount.
\* SQLite counts the rows the WHERE clause matched, MySQL the rows whose
\* stored values changed.
RowCount(be, matched, rec) ==
    IF be = "sqlite" THEN Cardinality(matched)
    ELSE Cardinality({r \in matched : r # rec})

\* Model.update(**rec).where(Model.name == rec["name"]).execute()
\* on table `table` ("AcqType" or "FileType"); returns [db, count].
SqlUpdate(db, table, rec, be) ==
    LET rows    == db[table]
        matched == {r \in rows : r.name = rec.name}
        newrows == IF matched = {} THEN rows ELSE (rows \ matched) \cup {rec}
        newdb   == [db EXCEPT ![table] = newrows]
        \* every matched row is given rec's id: two matched rows, or another
        \* row already holding that id, violate the primary key
        pkok    == /\ Cardinality(matched) <= 1
                   /\ \A r \in rows \ matched : matched # {} => r.id # rec.id
    IN  IF pkok /\ ConstraintsOk(newdb)
        THEN [db |-> newdb, count |-> RowCount(be, matched, rec)]
        ELSE [db |-> [db EXCEPT !.err = "IntegrityError"], count |-> 0]

\* Model.insert(**rec).execute() on table `table`
SqlInsert(db, table, rec) ==
    LET rows  == db[table]
        newdb == [db EXCEPT ![table] = rows \cup {rec}]
        pkok  == \A r \in rows : r.id # rec.id
        unok  == NameIsUnique(table) => \A r \in rows : r.name # rec.name
    IN  IF pkok /\ unok THEN newdb ELSE [db EXCEPT !.err = "IntegrityError"]

\* AcqFileTypes.insert(acq_type=a, file_type=f).execute()
SqlInsertPair(db, a, f) ==
    LET p     == [acq_type |-> a, file_type |-> f]
        newdb == [db EXCEPT !.AcqFileTypes = @ \cup {p}]
    IN  IF p \notin db.AcqFileTypes /\ ForeignKeysOk(newdb)
        THEN newdb ELSE [db EXCEPT !.err = "IntegrityError"]


\* Model.insert_many(rows, fields=[id, name]).execute(): one INSERT statement,
\* which the engine applies whole or not at all
SqlInsertMany(db, table, recs) ==
    LET rows == db[table]
        pkok == /\ \A r \in rows, n \in recs : r.id # n.id
                /\ PrimaryKeyOk(recs)
    IN  IF pkok THEN [db EXCEPT ![table] = rows \cup recs]
        ELSE [db EXCEPT !.err = "IntegrityError"]

\* a delete that removes nothing
SqlDeleteOtherPairs_nothing(db, a, f) == db

\* a delete whose WHERE clause forgets the acquisition type
SqlDeleteOtherPairs_anyAcq(db, a, f) ==
    [db EXCEPT !.AcqFileTypes = {p \in @ : ~(p.file_type # f)}]

\* AcqFileTypes.delete().where(acq_type == a, file_type != f).execute()
SqlDeleteOtherPairs(db, a, f) ==
    [db EXCEPT !.AcqFileTypes = {p \in @ : ~(p.acq_type = a /\ p.file_type # f)}]

(***************************************************************************)
(* The archive tables of orm.py.  Columns no operation below reads or      *)
(* constrains (comment, size_b, md5sum, timestamps, paths, quotas, the     *)
(* nullable references ArchiveAcq.inst, ArchiveAcq.type and, except where  *)
(* the info rows are concerned, ArchiveFile.type) are left out of the      *)
(* rows.  A nullable column holds <<>> for NULL and <<v>> for the value v. *)
(***************************************************************************)
\* SQL NULL in a nullable column
Null == <<>>

\* a keyword argument the caller of Model.insert / Model.create leaves out
NotGiven == "NotGiven"

\* EnumField(["N", "Y", "M", "X"], default="N")
has_file_enum == [choices |-> {"N", "Y", "M", "X"}, default |-> "N"]

\* EnumField(["Y", "M", "N"], default="Y")
wants_file_enum == [choices |-> {"Y", "M", "N"}, default |-> "Y"]

\* EnumField(["A", "T", "F"], default="A")
storage_type_enum == [choices |-> {"A", "T", "F"}, default |-> "A"]

\* the value a field stores: the one given, or its default
FieldValue(field, value) == IF value = NotGiven THEN field.default ELSE value

\* the foreign keys declared on the archive tables:
\* <<table, column, referenced table>>
ForeignKeys == {
    <<"ArchiveFile", "acq", "ArchiveAcq">>,
    <<"FileInfo", "file", "ArchiveFile">>,
    <<"StorageNode", "group", "StorageGroup">>,
    <<"ArchiveFileCopy", "file", "ArchiveFile">>,
    <<"ArchiveFileCopy", "node", "StorageNode">>,
    <<"ArchiveFileCopyRequest", "file", "ArchiveFile">>,
    <<"ArchiveFileCopyRequest", "group_to", "StorageGroup">>,
    <<"ArchiveFileCopyRequest", "node_from", "StorageNode">> }

\* every reference of an archive table points to an existing row
ArchiveForeignKeysOk(db) ==
    \A k \in ForeignKeys : \A r \in db[k[1]] : \E q \in db[k[3]] : q.id = r[k[2]]

\* a unique index that is not enforced
FileNodeIndexOk_notUnique(rows) == TRUE

\* ArchiveFileCopy.Meta.indexes = ((("file", "node"), True),): a unique index
FileNodeIndexOk(rows) ==
    \A r1, r2 \in rows : (r1.file = r2.file /\ r1.node = r2.node) => r1 = r2

\* an EnumField takes any string
EnumsOk_unchecked(db) == TRUE

\* every EnumField holds one of its choices
EnumsOk(db) ==
    /\ \A r \in db.ArchiveFileCopy :
           /\ r.has_file \in has_file_enum.choices
           /\ r.wants_file \in wants_file_enum.choices
    /\ \A r \in db.StorageNode : r.storage_type \in storage_type_enum.choices

\* the tables with an auto-incrementing integer id as primary key (FileInfo
\* stands for the info tables: the id is unique within one model's rows)
ArchiveIdTables == {"ArchiveAcq", "ArchiveFile", "StorageGroup", "StorageNode",
                    "ArchiveFileCopy", "ArchiveFileCopyRequest"}

\* a declaration that leaves unique=True off the storage tables' names
ArchiveUniqueNames_acqOnly == {"ArchiveAcq"}

\* the archive tables whose name column is declared unique=True
ArchiveUniqueNames == {"ArchiveAcq", "StorageGroup", "StorageNode"}

\* the uniqueness and reference constraints declared on the archive tables
ArchiveConstraintsOk(db) ==
    /\ \A t \in ArchiveIdTables : PrimaryKeyOk(db[t])
    /\ \A r1, r2 \in db.FileInfo : (r1.model = r2.model /\ r1.id = r2.id) => r1 = r2
    /\ \A t \in ArchiveUniqueNames : UniqueNameOk(db[t])
    /\ FileNodeIndexOk(db.ArchiveFileCopy)
    /\ ArchiveForeignKeysOk(db)

\* the id the engine gives a row inserted without one
AutoId(rows) ==
    IF rows = {} THEN 1 ELSE 1 + (CHOOSE m \in {r.id : r \in rows} : \A r \in rows : r.id <= m)

\* the outcome of a statement that leaves the tables as newdb: an EnumField
\* refuses a value outside its choices, the engine a constraint violation
Checked(db, newdb) ==
    IF ~ EnumsOk(newdb) THEN [db EXCEPT !.err = "ValueError"]
    ELSE IF ~ (ConstraintsOk(newdb) /\ ArchiveConstraintsOk(newdb)) THEN [db EXCEPT !.err = "IntegrityError"]
    ELSE newdb

\* Model.insert(**rec).execute() / Model.create(**rec) on an archive table,
\* the id left to the engine
SqlInsertRow(db, table, rec) ==
    LET ids == IF table = "FileInfo"
               THEN {r \in db.FileInfo : r.model = rec.model} ELSE db[table]
        row == [x \in DOMAIN rec \cup {"id"} |-> IF x = "id" THEN AutoId(ids) ELSE rec[x]]
    IN  Checked(db, [db EXCEPT ![table] = @ \cup {row}])

\* Model.update(column=value).where(Model.id == id_).execute()
SqlUpdateRow(db, table, id_, column, value) ==
    Checked(db, [db EXCEPT ![table] =
                    {IF r.id = id_ THEN [r EXCEPT ![column] = value] ELSE r : r \in @}])

(***************************************************************************)
(* update_types                                                            *)
(***************************************************************************)
\* an upsert that leaves a row found by name as it is
upsert_insertOnly(db, table, rec, be) ==
    IF db.err # "ok" THEN db
    ELSE IF \E r \in db[table] : r.name = rec.name THEN db
    ELSE SqlInsert(db, table, rec)

\* One iteration of the acqtype / filetype loops: update by name, insert
\* when the update reported no row.
upsert(db, table, rec, be) ==
    IF db.err # "ok" THEN db
    ELSE LET u == SqlUpdate(db, table, rec, be)
         IN  IF u.db.err # "ok" THEN u.db
             ELSE IF u.count = 0 THEN SqlInsert(u.db, table, rec)
             ELSE u.db

RECURSIVE upsert_all(_, _, _, _, _)
upsert_all(db, table, recs, i, be) ==
    IF i > Len(recs) THEN db
    ELSE upsert_all(upsert(db, table, recs[i], be), table, recs, i + 1, be)

\* One iteration of the mapping loop for names = <<acqtype name, filetype name>>
link(db, names) ==
    IF db.err # "ok" THEN db
    ELSE IF \/ ~ \E r \in db.AcqType : r.name = names[1]
            \/ ~ \E r \in db.FileType : r.name = names[2]
         THEN [db EXCEPT !.err = "DoesNotExist"]
    ELSE LET a == CHOOSE r \in db.AcqType : r.name = names[1]
             f == CHOOSE r \in db.FileType : r.name = names[2]
             \* First delete anything extra for this acq
             d == SqlDeleteOtherPairs(db, a.id, f.id)
         IN  \* Then add, if necessary
             IF [acq_type |-> a.id, file_type |-> f.id] \in d.AcqFileTypes
             THEN d
             ELSE SqlInsertPair(d, a.id, f.id)

RECURSIVE link_all(_, _, _)
link_all(db, pairs, i) ==
    IF i > Len(pairs) THEN db
    ELSE link_all(link(db, pairs[i]), pairs, i + 1)

\* The body of update_types, run inside the transaction
update_types_body(db, be) ==
    link_all(upsert_all(upsert_all(db, "AcqType", acqtypes, 1, be),
                        "FileType", filetypes, 1, be),
             acq_file_names, 1)

\* no transaction: what the body did before it raised stays
atomic_noRollback(db0, done) == done

\* @db.atomic(read_write=True): commit what the body did, or, when it raised,
\* roll back to the tables the transaction started from and re-raise
atomic(db0, done) ==
    IF done.err = "ok" THEN done ELSE [db0 EXCEPT !.err = done.err]

\* the log keeps the last two operations, newest first, each <<operation,
\* outcome>>
Logged(op, outcome) == <<<<op, outcome>>, log[1]>>

Commit(db) ==
    /\ AcqType' = db.AcqType
    /\ FileType' = db.FileType
    /\ AcqFileTypes' = db.AcqFileTypes
    /\ ArchiveInst' = db.ArchiveInst
    /\ ArchiveAcq' = db.ArchiveAcq
    /\ ArchiveFile' = db.ArchiveFile
    /\ FileInfo' = db.FileInfo
    /\ StorageGroup' = db.StorageGroup
    /\ StorageNode' = db.StorageNode
    /\ ArchiveFileCopy' = db.ArchiveFileCopy
    /\ ArchiveFileCopyRequest' = db.ArchiveFileCopyRequest
    /\ StorageTransferAction' = db.StorageTransferAction

update_types ==
    LET db == atomic(Begin(Tables), update_types_body(Begin(Tables), backend))
    IN  /\ Commit(db)
        /\ pre' = Tables
        /\ log' = Logged("update_types", db.err)
        /\ UNCHANGED <<local, backend, nops, name, npieces, ret>>

(***************************************************************************)
(* Rows written by hand (an operator, a migration, an older release):      *)
(* plain inserts through the ORM classes.                                  *)
(***************************************************************************)
OperatorAcqTypes ==
    {at(i, n, None, "OldAcqInfo") : i \in {1, 50}, n \in {"corr", "foo"}}
        \cup {at(3, "hk", None, None)}

OperatorFileTypes ==
    {ft(i, n, None, None, "old") : i \in {1, 50, 51}, n \in {"corr", "bar"}}

\* <<acq_type id, file_type id>> of the junction rows written by hand
OperatorPairs == {1, 50} \X {1, 5, 50}

InsertAcqType(rec) ==
    LET db == SqlInsert(Begin(Tables), "AcqType", rec)
    IN  /\ nops < MaxOps
        /\ nops' = nops + 1
        /\ Commit(db)
        /\ pre' = Tables
        /\ log' = Logged("insert", db.err)
        /\ UNCHANGED <<local, backend, name, npieces, ret>>

InsertFileType(rec) ==
    LET db == SqlInsert(Begin(Tables), "FileType", rec)
    IN  /\ nops < MaxOps
        /\ nops' = nops + 1
        /\ Commit(db)
        /\ pre' = Tables
        /\ log' = Logged("insert", db.err)
        /\ UNCHANGED <<local, backend, name, npieces, ret>>

InsertAcqFileTypes(a, f) ==
    LET db == SqlInsertPair(Begin(Tables), a, f)
    IN  /\ nops < MaxOps
        /\ nops' = nops + 1
        /\ Commit(db)
        /\ pre' = Tables
        /\ log' = Logged("insert", db.err)
        /\ UNCHANGED <<local, backend, name, npieces, ret>>

NoTables == [AcqType |-> {}, FileType |-> {}, AcqFileTypes |-> {}, ArchiveInst |-> {},
             ArchiveAcq |-> {}, ArchiveFile |-> {}, FileInfo |-> {}, StorageGroup |-> {},
             StorageNode |-> {}, ArchiveFileCopy |-> {}, ArchiveFileCopyRequest |-> {},
             StorageTransferAction |-> {}]

Init ==
    /\ AcqType = {}
    /\ FileType = {}
    /\ AcqFileTypes = {}
    /\ ArchiveInst = {}
    /\ ArchiveAcq = {}
    /\ ArchiveFile = {}
    /\ FileInfo = {}
    /\ StorageGroup = {}
    /\ StorageNode = {}
    /\ ArchiveFileCopy = {}
    /\ ArchiveFileCopyRequest = {}
    /\ StorageTransferAction = {}
    /\ txn = <<>>
    /\ call = <<>>
    /\ backend \in {"sqlite", "mysql"}
    /\ pre = NoTables
    /\ log = <<<<"connect", "ok">>, <<"connect", "ok">>>>
    /\ nops = 0
    /\ name = <<>>
    /\ npieces = 0
    /\ ret = Returned(<<>>, None)

Next ==
    \/ update_types
    \/ \E rec \in OperatorAcqTypes : InsertAcqType(rec)
    \/ \E rec \in OperatorFileTypes : InsertFileType(rec)
    \/ \E p \in OperatorPairs : InsertAcqFileTypes(p[1], p[2])

Spec == Init /\ [][Next]_vars

(***************************************************************************)
(* update_inst                                                             *)
(***************************************************************************)
\* The first entries of update_inst's list of <<id, name>>
\* (the list goes on to 269 entries of the same shape).
inst_head == <<
    <<1, "stone">>,
    <<2, "abbot">>,
    <<3, "blanchard">>,
    <<4, "ben">>,
    <<5, "first9ucrate">>,
    <<6, "first9ucreat">> >>

inst == SubSeq(inst_head, 1, NumInst)

\* the rows insert_many builds from inst: notes is left at its default, NULL
inst_rows == {[id |-> inst[i][1], name |-> inst[i][2], notes |-> None] : i \in DOMAIN inst}

\* update_inst is not wrapped in db.atomic: it is one statement
update_inst ==
    LET db == SqlInsertMany(Begin(Tables), "ArchiveInst", inst_rows)
    IN  /\ Commit(db)
        /\ pre' = Tables
        /\ log' = Logged("update_inst", db.err)
        /\ UNCHANGED <<local, backend, nops, name, npieces, ret>>

OperatorInsts ==
    {[id |-> i, name |-> n, notes |-> None] : i \in {1, 2, 300, 301}, n \in {"stone", "extra"}}

InsertInst(rec) ==
    LET db == SqlInsert(Begin(Tables), "ArchiveInst", rec)
    IN  /\ nops < MaxOps
        /\ nops' = nops + 1
        /\ Commit(db)
        /\ pre' = Tables
        /\ log' = Logged("insert", db.err)
        /\ UNCHANGED <<local, backend, name, npieces, ret>>

NextInst ==
    \/ update_inst
    \/ \E rec \in OperatorInsts : InsertInst(rec)

SpecInst == Init /\ [][NextInst]_vars

(***************************************************************************)
(* Writes to the archive tables: plain inserts and updates through the     *)
(* ORM classes, as the ingestion and copy tooling issues them.  The log    *)
(* entry of such a write carries its arguments as a third component.       *)
(***************************************************************************)
\* writes to the archive tables allowed in one behaviour
MaxWrites == 2

\* one statement on the archive tables, autocommitted
Write(op, args, db) ==
    /\ nops < MaxWrites
    /\ nops' = nops + 1
    /\ Commit(db)
    /\ pre' = Tables
    /\ log' = <<<<op, db.err, args>>, log[1]>>
    /\ UNCHANGED <<local, backend, name, npieces, ret>>

\* ArchiveAcq.create(name=name_)
InsertAcq(name_) ==
    Write("ArchiveAcq.insert", <<name_>>,
          SqlInsertRow(Begin(Tables), "ArchiveAcq", [name |-> name_]))

\* ArchiveFile.create(acq=acq, name=name_)
InsertFile(acq, name_) ==
    Write("ArchiveFile.insert", <<acq, name_>>,
          SqlInsertRow(Begin(Tables), "ArchiveFile", [acq |-> acq, name |-> name_]))

\* StorageGroup.create(name=name_)
InsertGroup(name_) ==
    Write("StorageGroup.insert", <<name_>>,
          SqlInsertRow(Begin(Tables), "StorageGroup", [name |-> name_]))

\* StorageNode.create(name=name_, group=group[, storage_type=storage_type])
InsertNode(name_, group, storage_type) ==
    Write("StorageNode.insert", <<name_, group, storage_type>>,
          SqlInsertRow(Begin(Tables), "StorageNode",
                       [name |-> name_, group |-> group,
                        storage_type |-> FieldValue(storage_type_enum, storage_type)]))

\* ArchiveFileCopy.create(file=file, node=node[, has_file=..][, wants_file=..])
InsertCopy(file, node, has_file, wants_file) ==
    Write("ArchiveFileCopy.insert", <<file, node, has_file, wants_file>>,
          SqlInsertRow(Begin(Tables), "ArchiveFileCopy",
                       [file |-> file, node |-> node,
                        has_file |-> FieldValue(has_file_enum, has_file),
                        wants_file |-> FieldValue(wants_file_enum, wants_file)]))

\* ArchiveFileCopyRequest.create(file=file, group_to=group_to,
\*                               node_from=node_from, completed=False, ...)
InsertRequest(file, group_to, node_from) ==
    Write("ArchiveFileCopyRequest.insert", <<file, group_to, node_from>>,
          SqlInsertRow(Begin(Tables), "ArchiveFileCopyRequest",
                       [file |-> file, group_to |-> group_to, node_from |-> node_from,
                        completed |-> FALSE]))

\* Model.update(column=value).where(Model.id == id_).execute() on `table`
Update(table, id_, column, value) ==
    Write("update", <<table, id_, column, value>>,
          SqlUpdateRow(Begin(Tables), table, id_, column, value))

\* An archive in use: one acquisition with two files, one storage group
\* with two nodes, one copy of the first file and no copy requests yet.
SomeArchive ==
    [NoTables EXCEPT
        !.ArchiveAcq = {[id |-> 1, name |-> "acq_a"]},
        !.ArchiveFile = {[id |-> 1, acq |-> 1, name |-> "f1"],
                         [id |-> 2, acq |-> 1, name |-> "f2"]},
        !.StorageGroup = {[id |-> 1, name |-> "grp_a"]},
        !.StorageNode = {[id |-> 1, name |-> "node_a", group |-> 1, storage_type |-> "A"],
                         [id |-> 2, name |-> "node_b", group |-> 1, storage_type |-> "T"]},
        !.ArchiveFileCopy = {[id |-> 1, file |-> 1, node |-> 1, has_file |-> "Y",
                              wants_file |-> "Y"]}]

\* the state of a connection to a database that holds the tables t
InitTables(t) ==
    /\ AcqType = t.AcqType
    /\ FileType = t.FileType
    /\ AcqFileTypes = t.AcqFileTypes
    /\ ArchiveInst = t.ArchiveInst
    /\ ArchiveAcq = t.ArchiveAcq
    /\ ArchiveFile = t.ArchiveFile
    /\ FileInfo = t.FileInfo
    /\ StorageGroup = t.StorageGroup
    /\ StorageNode = t.StorageNode
    /\ ArchiveFileCopy = t.ArchiveFileCopy
    /\ ArchiveFileCopyRequest = t.ArchiveFileCopyRequest
    /\ StorageTransferAction = t.StorageTransferAction
    /\ txn = <<>>
    /\ call = <<>>
    /\ backend = "sqlite"
    /\ pre = t
    /\ log = <<<<"connect", "ok">>, <<"connect", "ok">>>>
    /\ nops = 0
    /\ name = <<>>
    /\ npieces = 0
    /\ ret = Returned(<<>>, None)

InitArchive == InitTables(SomeArchive)

\* has_file / wants_file arguments of the copies written
CopyEnums == {<<NotGiven, NotGiven>>, <<"X", "M">>, <<"Z", NotGiven>>, <<NotGiven, "X">>}

\* <<table, id, column, value>> of the updates issued
Updates ==
    ({"ArchiveFileCopy"} \X {1, 2} \X
        {<<"node", 1>>, <<"node", 2>>, <<"file", 1>>, <<"has_file", "Y">>,
         <<"has_file", "Z">>, <<"wants_file", "N">>, <<"wants_file", "X">>})
    \cup ({"StorageNode"} \X {2} \X
        {<<"storage_type", "F">>, <<"storage_type", "Z">>, <<"name", "node_a">>,
         <<"name", "node_c">>})
    \cup ({"ArchiveAcq", "StorageGroup"} \X {1, 2} \X {<<"name", "acq_a">>, <<"name", "grp_a">>})
    \cup ({"AcqType"} \X {50} \X {<<"name", "corr">>, <<"name", "foo">>})
    \cup ({"ArchiveFile"} \X {2} \X {<<"name", "f1">>})

NextArchive ==
    \/ \E n \in {"acq_a", "acq_b"} : InsertAcq(n)
    \/ \E n \in {"f1", "f3"} : InsertFile(1, n)
    \/ \E n \in {"grp_a", "grp_b"} : InsertGroup(n)
    \/ \E n \in {"node_a", "node_c"}, t \in {NotGiven, "F", "Z"} : InsertNode(n, 1, t)
    \/ \E f \in {1, 2}, n \in {1, 2}, e \in CopyEnums : InsertCopy(f, n, e[1], e[2])
    \/ \E f \in {1, 2}, n \in {1, 2} : InsertRequest(f, 1, n)
    \/ \E u \in Updates : Update(u[1], u[2], u[3][1], u[3][2])
    \/ \E rec \in OperatorAcqTypes : InsertAcqType(rec)

SpecArchive == InitArchive /\ [][NextArchive]_vars

(***************************************************************************)
(* ArchiveAcq.start_time / ArchiveAcq.finish_time.  The time columns are   *)
(* doubles; the model's times are whole numbers.                           *)
(***************************************************************************)
\* the float 1e99 of start_time / finish_time, scaled down to a number that
\* is still larger than every time the model stores
Huge == 1000000000

\* the info models start_time and finish_time loop over, in order
file_info_table == <<"CorrFileInfo", "HFBFileInfo", "HKFileInfo", "WeatherFileInfo",
                     "RawadcFileInfo", "HKPFileInfo", "DigitalGainFileInfo",
                     "CalibrationGainFileInfo", "FlagInputFileInfo", "MiscFileInfo">>

\* min() and max() of two numbers
min(a, b) == IF a <= b THEN a ELSE b
max(a, b) == IF a >= b THEN a ELSE b

\* the rows self.files.join(model) ranges over: info rows of the model that
\* belong to a file of acquisition acq
Joined(t, acq, model) ==
    {r \in t.FileInfo : /\ r.model = model
                        /\ \E f \in t.ArchiveFile : f.id = r.file /\ f.acq = acq}

\* SELECT MIN(column) / MAX(column) ... .scalar(): NULL values are skipped,
\* and the result is None (Null here) when no value is left
Scalar(rows, column, least) ==
    LET vals == {r[column][1] : r \in {q \in rows : q[column] # Null}}
    IN  IF vals = {} THEN Null
        ELSE <<CHOOSE v \in vals :
                   \A w \in vals : IF least THEN v <= w ELSE v >= w>>

\* an `or` that falls back to zero
Or_zero(x, d) == IF x = Null THEN 0 ELSE x[1]

\* Python's `x or d` on a query result: d when x is None or 0
Or(x, d) == IF x = Null \/ x = <<0>> THEN d ELSE x[1]

\* ArchiveAcq.finish_time, after the first i models of file_info_table
RECURSIVE finish_time_loop(_, _, _)
finish_time_loop(t, acq, i) ==
    IF i = 0 THEN 0 - Huge
    ELSE max(finish_time_loop(t, acq, i - 1),
             Or(Scalar(Joined(t, acq, file_info_table[i]), "finish_time", FALSE), 0 - Huge))

\* ArchiveAcq.start_time, after the first i models of file_info_table
RECURSIVE start_time_loop(_, _, _)
start_time_loop(t, acq, i) ==
    IF i = 0 THEN Huge
    ELSE min(start_time_loop(t, acq, i - 1),
             Or(Scalar(Joined(t, acq, file_info_table[i]), "start_time", TRUE), Huge))

\* the property ArchiveAcq.finish_time of acquisition acq
finish_time_of(t, acq) == finish_time_loop(t, acq, Len(file_info_table))

\* the property ArchiveAcq.start_time of acquisition acq
start_time_of(t, acq) == start_time_loop(t, acq, Len(file_info_table))

\* Model.create(file=file, start_time=start, finish_time=finish) on the info
\* table of `model`
InsertInfo(model, file, start, finish) ==
    Write("FileInfo.insert", <<model, file, start, finish>>,
          SqlInsertRow(Begin(Tables), "FileInfo",
                       [model |-> model, file |-> file, start_time |-> start,
                        finish_time |-> finish]))

\* reading a property of an acquisition leaves the tables alone
Read(op, acq, value) ==
    /\ acq \in {a.id : a \in ArchiveAcq}
    /\ log' = <<<<op, "ok", <<acq>>>>, log[1]>>
    /\ ret' = Returned(<<value>>, None)
    /\ UNCHANGED <<AcqType, FileType, AcqFileTypes, ArchiveInst, archive, local, backend, pre, nops,
                   name, npieces>>

start_time(acq) == Read("start_time", acq, start_time_of(Tables, acq))

finish_time(acq) == Read("finish_time", acq, finish_time_of(Tables, acq))

\* Two acquisitions: the first with two files, the second with one; no
\* info rows yet.
TwoAcqs ==
    [NoTables EXCEPT
        !.ArchiveAcq = {[id |-> 1, name |-> "acq_a"], [id |-> 2, name |-> "acq_b"]},
        !.ArchiveFile = {[id |-> 1, acq |-> 1, name |-> "f1"],
                         [id |-> 2, acq |-> 1, name |-> "f2"],
                         [id |-> 3, acq |-> 2, name |-> "f1"]}]

InitTimes == InitTables(TwoAcqs)

\* <<start_time, finish_time>> of the info rows written
InfoTimes == {<<Null, Null>>, <<<<0>>, <<0>>>>, <<<<100>>, <<150>>>>, <<<<200>>, <<250>>>>}

\* <<model, file>> of the info rows written
InfoFiles == ({"CorrFileInfo"} \X {1, 2, 3}) \cup ({"MiscFileInfo"} \X {1})

NextTimes ==
    \/ \E mf \in InfoFiles, x \in InfoTimes : InsertInfo(mf[1], mf[2], x[1], x[2])
    \/ \E a \in {1, 2} : start_time(a)
    \/ \E a \in {1, 2} : finish_time(a)

SpecTimes == InitTimes /\ [][NextTimes]_vars

(***************************************************************************)
(* Info rows and the file counts of an acquisition.  The ArchiveFile rows  *)
(* of this part carry the nullable reference ArchiveFile.type.             *)
(***************************************************************************)
\* self.files.join(model): one row per (file of the acquisition, info row of
\* the model for it); the rows are identified here by the info row
corr_files(t, acq) == Joined(t, acq, "CorrFileInfo")

hfb_files(t, acq) == Joined(t, acq, "HFBFileInfo")

hk_files(t, acq) == Joined(t, acq, "HKFileInfo")

weather_files(t, acq) == Joined(t, acq, "WeatherFileInfo")

rawadc_files(t, acq) == Joined(t, acq, "RawadcFileInfo")

\* the ArchiveFile rows a join query selects
Selected(t, joined) == {f \in t.ArchiveFile : \E r \in joined : r.file = f.id}

\* ArchiveAcq.timed_files: the UNION of five join queries, a set of
\* ArchiveFile rows
timed_files_of(t, acq) ==
    Selected(t, corr_files(t, acq)) \cup Selected(t, hfb_files(t, acq))
        \cup Selected(t, hk_files(t, acq)) \cup Selected(t, weather_files(t, acq))
        \cup Selected(t, rawadc_files(t, acq))

\* ArchiveAcq.n_timed_files: the sum of four COUNT queries
n_timed_files_of(t, acq) ==
    Cardinality(corr_files(t, acq)) + Cardinality(hfb_files(t, acq))
        + Cardinality(hk_files(t, acq)) + Cardinality(weather_files(t, acq))

timed_files(acq) == Read("timed_files", acq, timed_files_of(Tables, acq))

n_timed_files(acq) == Read("n_timed_files", acq, n_timed_files_of(Tables, acq))

\* The corr and rawadc file types as seeded; two acquisitions, the first
\* with a corr file and a raw-ADC file, the second with one raw-ADC file; no
\* info rows yet.
TypedFiles ==
    [NoTables EXCEPT
        !.FileType = {filetypes[1], filetypes[5]},
        !.ArchiveAcq = {[id |-> 1, name |-> "acq_a"], [id |-> 2, name |-> "acq_b"]},
        !.ArchiveFile = {[id |-> 1, acq |-> 1, name |-> "f1", type |-> <<1>>],
                         [id |-> 2, acq |-> 1, name |-> "r1", type |-> <<5>>],
                         [id |-> 3, acq |-> 2, name |-> "r1", type |-> <<5>>]}]

InitInfo == InitTables(TypedFiles)

NextInfo ==
    \/ \E m \in {"CorrFileInfo", "RawadcFileInfo"}, f \in {1, 2, 3} :
           InsertInfo(m, f, Null, Null)
    \/ \E a \in {1, 2} : timed_files(a)
    \/ \E a \in {1, 2} : n_timed_files(a)

SpecInfo == InitInfo /\ [][NextInfo]_vars

(***************************************************************************)
(* update_storage and the StorageTransferAction table.  Neither is part of *)
(* the sources at hand (only test_update_storage uses them), so both are   *)
(* written from the reference-data seeding contract: groups and nodes are  *)
(* created only if absent, keyed by fixed numeric ids, then the canonical  *)
(* edges are inserted without an existence check, all in one transaction.  *)
(* A StorageTransferAction row is [row, node_from, group_to, autosync,     *)
(* autoclean], row being the engine's identity of the row.                 *)
(***************************************************************************)
\* the canonical groups, their position being their fixed id
storage_groups == <<"scinet_staging", "scinet_hpss", "drao_storage", "cedar_offload",
                    "cedar_online", "cedar_staging", "cedar_nearline">>

\* the canonical nodes, <<name, name of its group>>, their position being
\* their fixed id
storage_nodes == <<
    <<"gong", "drao_storage">>,
    <<"cedar_offload", "cedar_offload">>,
    <<"cedar_staging", "cedar_staging">>,
    <<"cedar_smallfile", "cedar_nearline">>,
    <<"cedar_nearline", "cedar_nearline">>,
    <<"cedar_online", "cedar_online">>,
    <<"scinet_staging", "scinet_staging">>,
    <<"scinet_hpss", "scinet_hpss">> >>

\* the canonical edges, <<source node, destination group, autosync, autoclean>>
storage_edges == <<
    <<"gong", "cedar_staging", TRUE, FALSE>>,
    <<"cedar_staging", "cedar_offload", TRUE, FALSE>>,
    <<"cedar_staging", "scinet_staging", TRUE, FALSE>>,
    <<"cedar_staging", "scinet_hpss", FALSE, TRUE>>,
    <<"cedar_offload", "cedar_nearline", TRUE, TRUE>>,
    <<"scinet_staging", "scinet_hpss", TRUE, TRUE>> >>

\* the fixed id of a canonical group / node
GroupId(n) == CHOOSE i \in DOMAIN storage_groups : storage_groups[i] = n

NodeId(n) == CHOOSE i \in DOMAIN storage_nodes : storage_nodes[i][1] = n

\* an edge table without a key
TransferActionKeyOk_notUnique(rows) == TRUE

\* the key of StorageTransferAction: one row per (node_from, group_to)
TransferActionKeyOk(rows) ==
    \A r1, r2 \in rows :
        (r1.node_from = r2.node_from /\ r1.group_to = r2.group_to) => r1 = r2

\* the constraints of StorageTransferAction: its key and its two references
TransferActionOk(db) ==
    /\ TransferActionKeyOk(db.StorageTransferAction)
    /\ \A r \in db.StorageTransferAction :
           /\ \E n \in db.StorageNode : n.id = r.node_from
           /\ \E g \in db.StorageGroup : g.id = r.group_to

\* StorageTransferAction.insert(node_from=.., group_to=.., autosync=..,
\* autoclean=..).execute()
SqlInsertEdge(db, node, group, autosync, autoclean) ==
    IF db.err # "ok" THEN db
    ELSE LET rows   == db.StorageTransferAction
             row    == [row |-> IF rows = {} THEN 1
                                ELSE 1 + (CHOOSE m \in {r.row : r \in rows} :
                                              \A r \in rows : r.row <= m),
                        node_from |-> node, group_to |-> group,
                        autosync |-> autosync, autoclean |-> autoclean]
             newdb  == [db EXCEPT !.StorageTransferAction = @ \cup {row}]
         IN  IF TransferActionOk(newdb) THEN newdb
             ELSE [db EXCEPT !.err = "IntegrityError"]

\* create the row with this fixed id unless a row with the id exists
create_if_absent(db, table, rec) ==
    IF db.err # "ok" THEN db
    ELSE IF \E r \in db[table] : r.id = rec.id THEN db
    ELSE Checked(db, [db EXCEPT ![table] = @ \cup {rec}])

RECURSIVE create_groups(_, _)
create_groups(db, i) ==
    IF i > Len(storage_groups) THEN db
    ELSE create_groups(create_if_absent(db, "StorageGroup",
                                        [id |-> i, name |-> storage_groups[i]]), i + 1)

RECURSIVE create_nodes(_, _)
create_nodes(db, i) ==
    IF i > Len(storage_nodes) THEN db
    ELSE create_nodes(create_if_absent(db, "StorageNode",
                          [id |-> i, name |-> storage_nodes[i][1],
                           group |-> GroupId(storage_nodes[i][2]),
                           storage_type |-> FieldValue(storage_type_enum, NotGiven)]),
                      i + 1)

RECURSIVE insert_edges(_, _)
insert_edges(db, i) ==
    IF i > Len(storage_edges) THEN db
    ELSE insert_edges(SqlInsertEdge(db, NodeId(storage_edges[i][1]),
                                    GroupId(storage_edges[i][2]),
                                    storage_edges[i][3], storage_edges[i][4]), i + 1)

\* The body of update_storage, run inside the transaction
update_storage_body(db) == insert_edges(create_nodes(create_groups(db, 1), 1), 1)

update_storage ==
    LET db == atomic(Begin(Tables), update_storage_body(Begin(Tables)))
    IN  /\ Commit(db)
        /\ pre' = Tables
        /\ log' = Logged("update_storage", db.err)
        /\ UNCHANGED <<local, backend, nops, name, npieces, ret>>

\* an edge added by hand
InsertEdge(node, group, autosync, autoclean) ==
    Write("StorageTransferAction.insert", <<node, group, autosync, autoclean>>,
          SqlInsertEdge(Begin(Tables), node, group, autosync, autoclean))

InitStorage == InitTables(NoTables)

NextStorage ==
    \/ update_storage
    \/ \E n \in {"grp_x", "scinet_hpss"} : InsertGroup(n)
    \/ \E n \in {"node_x", "gong"}, g \in {1, 8} : InsertNode(n, g, NotGiven)
    \/ \E n \in {1, 9}, g \in {6, 8}, s \in BOOLEAN : InsertEdge(n, g, s, FALSE)

SpecStorage == InitStorage /\ [][NextStorage]_vars

(***************************************************************************)
(* InfoBase.__init__.  The keyword arguments are a record over the         *)
(* keywords in play, a keyword the caller leaves out holding NotGiven.     *)
(***************************************************************************)
\* the value kwargs.pop(k, default) returns
pop(kwargs, k, default) == IF kwargs[k] = NotGiven THEN default ELSE kwargs[k]

\* a lookup that leaves the keyword in place
popped_kept(kwargs, k) == kwargs

\* what kwargs.pop(k, default) leaves of kwargs
popped(kwargs, k) == [kwargs EXCEPT ![k] = NotGiven]

\* what a subclass's _set_info returns: a dict of field data read from the
\* file, here the one field info
_set_info(path, node, name_data) == [info |-> <<path, node, name_data>>]

\* kwargs |= d
Merged(kwargs, d) ==
    [k \in DOMAIN kwargs |-> IF k \in DOMAIN d THEN d[k] ELSE kwargs[k]]

\* InfoBase.__init__(self, **kwargs) of a class with this is_acq:
\* the outcome, the _set_info calls made (their arguments) and the keyword
\* arguments handed to the peewee Model initialiser (none when it raised)
InfoBase_init(is_acq, kwargs) ==
    LET \* Remove keywords we consume
        path      == pop(kwargs, "path_", None)
        k1        == popped(kwargs, "path_")
        node      == pop(k1, "node_", None)
        k2        == popped(k1, "node_")
        name_data == pop(k2, "name_data_", "()")
        k3        == popped(k2, "name_data_")
        \* If we were given an "item_", convert it to an acq or file
        item      == pop(k3, "item_", None)
        k4        == popped(k3, "item_")
        k5        == IF item # None
                     THEN IF is_acq THEN [k4 EXCEPT !.acq = item]
                          ELSE [k4 EXCEPT !.file = item]
                     ELSE k4
    IN  \* Call _set_info, if necessary
        IF path # None
        THEN IF node = None
             THEN [outcome |-> "ValueError", set_info |-> <<>>, init |-> <<>>]
             ELSE [outcome |-> "ok",
                   set_info |-> <<<<path, node, name_data>>>>,
                   init |-> <<Merged(k5, _set_info(path, node, name_data))>>]
        ELSE [outcome |-> "ok", set_info |-> <<>>, init |-> <<k5>>]

\* the keyword arguments a caller may pass: path_, node_ and item_ left out,
\* None or a value, name_data_ left out or a value, and a field value acq
Kwargs ==
    [path_ : {NotGiven, None, "a/b.h5"}, node_ : {NotGiven, None, "node"},
     name_data_ : {NotGiven, "('7',)"}, item_ : {NotGiven, None, "item"},
     acq : {"acq0"}, file : {NotGiven}, info : {NotGiven}]

\* Cls(**kwargs) for an info class Cls
InfoBase(is_acq, kwargs) ==
    LET r == InfoBase_init(is_acq, kwargs)
    IN  /\ log' = <<<<"InfoBase", r.outcome, <<is_acq, kwargs>>>>, log[1]>>
        /\ ret' = Returned(<<r>>, None)
        /\ UNCHANGED <<AcqType, FileType, AcqFileTypes, ArchiveInst, archive, local, backend,
                       pre, nops, name, npieces>>

InitInfoBase == InitTables(NoTables)

NextInfoBase == \E is_acq \in BOOLEAN, kwargs \in Kwargs : InfoBase(is_acq, kwargs)

SpecInfoBase == InitInfoBase /\ [][NextInfoBase]_vars

(***************************************************************************)
(* md5sum_file.  A file is the sequence of its bytes.  hashlib's MD5 and   *)
(* the md5sum utility are taken as given: the digest is a value determined *)
(* by the byte string digested, [form, md5_of, text], form telling the raw *)
(* 16-byte digest from the 32-character lowercase hex string and text      *)
(* spelling the hex string out where RFC 1321 lists it.  The source reads  *)
(* blocks of 256 * 128 bytes; the model reads blocks of BlockSize bytes,   *)
(* so that files of a few bytes span several blocks.                       *)
(***************************************************************************)
\* bytes read per block
BlockSize == 2
\* bytes of the longest file
MaxLen == 4

block_size == BlockSize

Bytes == {"a", "b", "c"}

\* the hex digests of the RFC 1321 test suite, "" for other byte strings
rfc1321(bytes) ==
    IF bytes = <<>> THEN "d41d8cd98f00b204e9800998ecf8427e"
    ELSE IF bytes = <<"a">> THEN "0cc175b9c0f1b6a831c399e269772661"
    ELSE IF bytes = <<"a", "b", "c">> THEN "900150983cd24fb0d6963f7d28e17f72"
    ELSE ""

\* md5.digest() of an md5 object that was fed bytes
digest(bytes) == [form |-> "raw", md5_of |-> bytes, text |-> ""]

\* md5.hexdigest() of an md5 object that was fed bytes; also the first word
\* the md5sum utility prints for a file holding bytes
hexdigest(bytes) == [form |-> "hex", md5_of |-> bytes, text |-> rfc1321(bytes)]

\* a read that loses the byte after each block
f_read_skipping(content, pos, n) ==
    [chunk |-> SubSeq(content, pos, min(pos + n - 1, Len(content))),
     pos |-> min(pos + n + 1, Len(content) + 1)]

\* f.read(n) on a file object at position pos (1-based): the next n bytes,
\* fewer at the end of the file, none after it, and the new position
f_read(content, pos, n) ==
    [chunk |-> SubSeq(content, pos, min(pos + n - 1, Len(content))),
     pos |-> min(pos + n, Len(content) + 1)]

\* md5.update(chunk) on an md5 object that was fed md5 so far
update(md5, chunk) == md5 \o chunk

\* for chunk in iter(lambda: f.read(block_size), b""): md5.update(chunk)
\* -- the md5 object, the chunks fed to it and the number of reads made
RECURSIVE read_blocks(_, _, _, _, _)
read_blocks(content, pos, md5, chunks, reads) ==
    LET r == f_read(content, pos, block_size)
    IN  IF r.chunk = <<>> THEN [md5 |-> md5, chunks |-> chunks, reads |-> reads + 1]
        ELSE read_blocks(content, r.pos, update(md5, r.chunk), Append(chunks, r.chunk),
                         reads + 1)

\* md5sum_file(filename, hr, cmd_line) for a file holding content: the
\* value returned and the blocks read on the way
md5sum_file_of(content, hr, cmd_line) ==
    IF cmd_line
    THEN [result |-> hexdigest(content), chunks |-> <<>>, reads |-> 0]
    ELSE LET b == read_blocks(content, 1, <<>>, <<>>, 0)
         IN  [result |-> IF hr THEN hexdigest(b.md5) ELSE digest(b.md5),
              chunks |-> b.chunks, reads |-> b.reads]

RECURSIVE Files(_)
Files(n) ==
    IF n = 0 THEN {<<>>}
    ELSE Files(n - 1) \cup {Append(s, b) : s \in {t \in Files(n - 1) : Len(t) = n - 1}, b \in Bytes}

md5sum_file(content, hr, cmd_line) ==
    LET r == md5sum_file_of(content, hr, cmd_line)
    IN  /\ call' = [fn |-> "md5sum_file", content |-> content, hr |-> hr,
                    cmd_line |-> cmd_line, chunks |-> r.chunks, reads |-> r.reads]
        /\ ret' = Returned(<<r.result>>, None)
        /\ UNCHANGED <<AcqType, FileType, AcqFileTypes, ArchiveInst, archive, txn, backend,
                       pre, log, nops, name, npieces>>

InitMd5 == InitTables(NoTables)

NextMd5 ==
    \E content \in Files(MaxLen), hr \in BOOLEAN, cmd_line \in BOOLEAN :
        md5sum_file(content, hr, cmd_line)

SpecMd5 == InitMd5 /\ [][NextMd5]_vars

(***************************************************************************)
(* Concurrent update_types calls.  Each caller runs the statements of      *)
(* update_types one at a time inside its own transaction; the statements   *)
(* of different callers interleave.  A transaction sees the committed rows *)
(* and its own writes.  The engine locks what a transaction has written or *)
(* matched with an UPDATE until the transaction ends: a statement of       *)
(* another transaction that needs one of these keys waits, and is          *)
(* evaluated, constraints included, once the holder has committed or       *)
(* rolled back.                                                            *)
(***************************************************************************)
Callers == {1, 2}

SeedTables == {"AcqType", "FileType", "AcqFileTypes"}

\* the statements of the acqtype / filetype loops: an UPDATE by name, then
\* an INSERT made when the UPDATE reported no row
UpsertStatements(table, recs) ==
    [i \in 1..(2 * Len(recs)) |->
        <<IF i % 2 = 1 THEN "update" ELSE "insert", table, recs[(i + 1) \div 2]>>]

\* the statements of the mapping loop: the two gets and the DELETE, the
\* AcqFileTypes.get, and the INSERT made when the get found no row
LinkStatements(pairs) ==
    [i \in 1..(3 * Len(pairs)) |->
        <<IF i % 3 = 1 THEN "delete" ELSE IF i % 3 = 2 THEN "get" ELSE "add",
          "AcqFileTypes", pairs[(i + 2) \div 3]>>]

\* update_types as the sequence of statements it issues
Program ==
    UpsertStatements("AcqType", acqtypes) \o UpsertStatements("FileType", filetypes)
        \o LinkStatements(acq_file_names)

\* <<table, row>> for the rows of the seeding tables that are in t but not in u
RowsNotIn(t, u) == UNION {{<<tb, r>> : r \in t[tb] \ u[tb]} : tb \in SeedTables}

\* the rows of a table among a set of <<table, row>>
RowsOf(pairs, tb) == {x[2] : x \in {y \in pairs : y[1] = tb}}

\* the tables as the transaction of caller p sees them: the committed rows
\* without those it deleted or replaced, with those it wrote
View(p) ==
    [Tables EXCEPT
        !.AcqType = (@ \ RowsOf(txn[p].gone, "AcqType")) \cup RowsOf(txn[p].put, "AcqType"),
        !.FileType = (@ \ RowsOf(txn[p].gone, "FileType")) \cup RowsOf(txn[p].put, "FileType"),
        !.AcqFileTypes = (@ \ RowsOf(txn[p].gone, "AcqFileTypes"))
                             \cup RowsOf(txn[p].put, "AcqFileTypes")]

\* the keys a row occupies: its primary key and, in AcqType and FileType,
\* its name
KeysOf(tb, r) ==
    IF tb = "AcqFileTypes" THEN {<<tb, "pair", <<r.acq_type, r.file_type>>>>}
    ELSE {<<tb, "id", <<r.id>>>>, <<tb, "name", <<r.name>>>>}

\* the at / ft rows of one iteration of the mapping loop, in the view v
LinkRows(v, names) ==
    [at |-> {r \in v.AcqType : r.name = names[1]},
     ft |-> {r \in v.FileType : r.name = names[2]}]

\* what the statement s of caller p does to its view: [db, count, found],
\* count being the rowcount of its last UPDATE and found the result of its
\* last AcqFileTypes.get
Executed(p, s) ==
    LET v  == Begin(View(p))
        t  == txn[p]
        lr == LinkRows(v, s[3])
        a  == (CHOOSE r \in lr.at : TRUE).id
        f  == (CHOOSE r \in lr.ft : TRUE).id
    IN  IF s[1] = "update"
        THEN LET u == SqlUpdate(v, s[2], s[3], backend)
             IN  [db |-> u.db, count |-> u.count, found |-> t.found]
        ELSE IF s[1] = "insert"
        THEN [db |-> IF t.count = 0 THEN SqlInsert(v, s[2], s[3]) ELSE v,
              count |-> t.count, found |-> t.found]
        ELSE IF lr.at = {} \/ lr.ft = {}
        THEN [db |-> [v EXCEPT !.err = "DoesNotExist"], count |-> t.count,
              found |-> t.found]
        ELSE IF s[1] = "delete"
        THEN [db |-> SqlDeleteOtherPairs(v, a, f), count |-> t.count, found |-> t.found]
        ELSE IF s[1] = "get"
        THEN [db |-> v, count |-> t.count,
              found |-> [acq_type |-> a, file_type |-> f] \in v.AcqFileTypes]
        ELSE [db |-> IF t.found THEN v ELSE SqlInsertPair(v, a, f),
              count |-> t.count, found |-> t.found]

\* the keys the statement s of caller p needs: the name an UPDATE selects by
\* and, when it matches a row, the keys of the row and of what it becomes;
\* the keys of the row an INSERT adds and of the rows it references; the
\* keys of the rows a DELETE removes
Needed(p, s) ==
    LET v  == View(p)
        t  == txn[p]
        lr == LinkRows(v, s[3])
        a  == (CHOOSE r \in lr.at : TRUE).id
        f  == (CHOOSE r \in lr.ft : TRUE).id
    IN  IF s[1] = "update"
        THEN {<<s[2], "name", <<s[3].name>>>>}
                 \cup (IF \E r \in v[s[2]] : r.name = s[3].name
                       THEN KeysOf(s[2], s[3])
                                \cup UNION {KeysOf(s[2], r) :
                                               r \in {q \in v[s[2]] : q.name = s[3].name}}
                       ELSE {})
        ELSE IF s[1] = "insert"
        THEN IF t.count # 0 THEN {}
             ELSE {<<s[2], "id", <<s[3].id>>>>}
                      \cup (IF NameIsUnique(s[2]) THEN {<<s[2], "name", <<s[3].name>>>>}
                            ELSE {})
        ELSE IF lr.at = {} \/ lr.ft = {} \/ s[1] = "get" THEN {}
        ELSE IF s[1] = "delete"
        THEN UNION {KeysOf("AcqFileTypes", r) :
                       r \in {q \in v.AcqFileTypes : q.acq_type = a /\ q.file_type # f}}
        ELSE IF t.found THEN {}
        ELSE {<<"AcqFileTypes", "pair", <<a, f>>>>, <<"AcqType", "id", <<a>>>>,
              <<"FileType", "id", <<f>>>>}

\* the keys the statement s of caller p locks until its transaction ends:
\* those of the rows it matched, wrote or removed
Acquired(p, s) ==
    LET v  == View(p)
        t  == txn[p]
        lr == LinkRows(v, s[3])
        a  == (CHOOSE r \in lr.at : TRUE).id
        f  == (CHOOSE r \in lr.ft : TRUE).id
    IN  IF s[1] = "update"
        THEN IF \E r \in v[s[2]] : r.name = s[3].name THEN Needed(p, s) ELSE {}
        ELSE IF s[1] = "insert"
        THEN IF t.count # 0 THEN {} ELSE KeysOf(s[2], s[3])
        ELSE IF lr.at = {} \/ lr.ft = {} \/ s[1] = "get" THEN {}
        ELSE IF s[1] = "delete" THEN Needed(p, s)
        ELSE IF t.found THEN {}
        ELSE {<<"AcqFileTypes", "pair", <<a, f>>>>}

\* the keys the open transactions of the other callers hold
HeldByOthers(p) ==
    UNION {txn[q].locks : q \in {c \in DOMAIN txn : c # p /\ txn[c].state = "open"}}

\* an engine on which no statement waits for another transaction
Blocked_never(p, s) == FALSE

\* the statement has to wait: another open transaction holds a key it needs
Blocked(p, s) == Needed(p, s) \cap HeldByOthers(p) # {}

\* caller p enters update_types: the transaction begins
begin(p) ==
    /\ p \notin DOMAIN txn
    /\ txn' = (p :> [state |-> "open", pc |-> 1, count |-> 0, found |-> FALSE,
                     put |-> {}, gone |-> {}, locks |-> {}, inserted |-> {},
                     err |-> "ok"]) @@ txn
    /\ UNCHANGED <<AcqType, FileType, AcqFileTypes, ArchiveInst, archive, call, backend, pre,
                   log, nops, name, npieces, ret>>

\* caller p executes its next statement; when the statement raises, the
\* exception leaves the atomic block, which rolls the transaction back
step(p) ==
    /\ p \in DOMAIN txn
    /\ txn[p].state = "open"
    /\ txn[p].pc <= Len(Program)
    /\ ~ Blocked(p, Program[txn[p].pc])
    /\ LET s == Program[txn[p].pc]
           e == Executed(p, s)
           d == atomic(Begin(Tables), e.db)
       IN  IF e.db.err = "ok"
           THEN /\ txn' = [txn EXCEPT ![p] =
                              [@ EXCEPT !.pc = @ + 1, !.count = e.count, !.found = e.found,
                                        !.put = RowsNotIn(e.db, Tables),
                                        !.gone = RowsNotIn(Tables, e.db),
                                        !.locks = @ \cup Acquired(p, s),
                                        !.inserted =
                                            IF s[1] \in {"insert", "add"}
                                            THEN @ \cup RowsNotIn(e.db, View(p)) ELSE @]]
                /\ UNCHANGED <<AcqType, FileType, AcqFileTypes, ArchiveInst, archive, pre, log>>
           ELSE /\ txn' = [txn EXCEPT ![p] =
                              [@ EXCEPT !.state = "failed", !.err = d.err, !.put = {},
                                        !.gone = {}, !.locks = {}, !.inserted = {}]]
                /\ Commit(d)
                /\ pre' = Tables
                /\ log' = Logged("update_types", d.err)
    /\ UNCHANGED <<call, backend, nops, name, npieces, ret>>

\* caller p leaves the atomic block without an exception: the transaction
\* commits
commit(p) ==
    /\ p \in DOMAIN txn
    /\ txn[p].state = "open"
    /\ txn[p].pc > Len(Program)
    /\ LET d == atomic(Begin(Tables), Begin(View(p)))
       IN  /\ Commit(d)
           /\ log' = Logged("update_types", d.err)
    /\ pre' = Tables
    /\ txn' = [txn EXCEPT ![p] = [@ EXCEPT !.state = "committed", !.put = {}, !.gone = {},
                                           !.locks = {}]]
    /\ UNCHANGED <<call, backend, nops, name, npieces, ret>>

NextRace ==
    \/ \E p \in Callers : begin(p)
    \/ \E p \in Callers : step(p)
    \/ \E p \in Callers : commit(p)

SpecRace == Init /\ [][NextRace]_vars

(***************************************************************************)
(* File and acquisition names.  A Python str is a sequence of one-character *)
(* strings.  A compiled pattern is an operator that takes the string and    *)
(* returns the position just after the match re.match finds at the start of *)
(* the string, or 0 when there is none.  Each star / bounded repeat below   *)
(* is followed by a character outside its class, so the greedy run is the   *)
(* only way the pattern can match and no backtracking is lost.              *)
(***************************************************************************)
Digit == {"0", "1", "2", "3", "4", "5", "6", "7", "8", "9"}

Lower == {"a", "b", "c", "d", "e", "f", "g", "h", "i", "j", "k", "l", "m",
          "n", "o", "p", "q", "r", "s", "t", "u", "v", "w", "x", "y", "z"}

Upper == {"A", "B", "C", "D", "E", "F", "G", "H", "I", "J", "K", "L", "M",
          "N", "O", "P", "Q", "R", "S", "T", "U", "V", "W", "X", "Y", "Z"}

\* [A-Za-z]
Alpha == Lower \cup Upper

\* [A-Za-z0-9]
Alnum == Alpha \cup Digit

\* the literal w at position p
lit(s, p, w) ==
    IF p = 0 \/ p + Len(w) - 1 > Len(s) THEN 0
    ELSE IF SubSeq(s, p, p + Len(w) - 1) = w THEN p + Len(w) ELSE 0

\* one character of class cls at position p
one(s, p, cls) ==
    IF p = 0 \/ p > Len(s) THEN 0
    ELSE IF s[p] \in cls THEN p + 1 ELSE 0

\* cls{n}
RECURSIVE rep(_, _, _, _)
rep(s, p, cls, n) ==
    IF n = 0 THEN p ELSE rep(s, one(s, p, cls), cls, n - 1)

\* cls*
RECURSIVE star(_, _, _)
star(s, p, cls) ==
    IF p = 0 THEN 0
    ELSE IF p <= Len(s) /\ s[p] \in cls THEN star(s, p + 1, cls) ELSE p

\* a|b followed by the literal w: the first alternative that lets w match
alt(s, p, a, b, w) ==
    IF lit(s, lit(s, p, a), w) # 0 THEN lit(s, lit(s, p, a), w)
    ELSE lit(s, lit(s, p, b), w)

H5 == <<".", "h", "5">>

\* "([0-9]{8})T([0-9]{6})Z_([A-Za-z0-9]*)_([A-Za-z]*)"
_fmt_acq(s) ==
    star(s, lit(s, star(s, lit(s, rep(s, lit(s, rep(s, 1, Digit, 8), <<"T">>), Digit, 6),
                                  <<"Z", "_">>), Alnum), <<"_">>), Alpha)

\* "([0-9]{8})_([0-9]{4})\.h5"
_fmt_corr(s) == lit(s, rep(s, lit(s, rep(s, 1, Digit, 8), <<"_">>), Digit, 4), H5)

\* "hfb_([0-9]{8})_([0-9]{4})\.h5"
_fmt_hfb(s) ==
    lit(s, rep(s, lit(s, rep(s, lit(s, 1, <<"h", "f", "b", "_">>), Digit, 8), <<"_">>), Digit, 4), H5)

\* "([A-Za-z]*)_([0-9]{8})\.h5"
_fmt_hk(s) == lit(s, rep(s, lit(s, star(s, 1, Alpha), <<"_">>), Digit, 8), H5)

\* "hkp_prom_([0-9]{8})\.h5"
_fmt_hkp(s) == lit(s, rep(s, lit(s, 1, <<"h", "k", "p", "_", "p", "r", "o", "m", "_">>), Digit, 8), H5)

\* "atmel_id\.dat"
_fmt_atmel(s) == lit(s, 1, <<"a", "t", "m", "e", "l", "_", "i", "d", ".", "d", "a", "t">>)

\* "ch_(master|hk)\.log"
_fmt_log(s) ==
    alt(s, lit(s, 1, <<"c", "h", "_">>), <<"m", "a", "s", "t", "e", "r">>, <<"h", "k">>, <<".", "l", "o", "g">>)

\* "rawadc\.npy"
_fmt_rawadc(s) == lit(s, 1, <<"r", "a", "w", "a", "d", "c", ".", "n", "p", "y">>)

\* [0-9]{1,2} followed by "\.pdf"
chan_pdf(s, p) ==
    LET p1 == one(s, p, Digit)
        p2 == IF one(s, p1, Digit) # 0 THEN one(s, p1, Digit) ELSE p1
    IN  lit(s, p2, <<".", "p", "d", "f">>)

\* "histogram_chan([0-9]{1,2})\.pdf"
_fmt_rawadc_hist(s) == chan_pdf(s, lit(s, 1, <<"h", "i", "s", "t", "o", "g", "r", "a", "m", "_", "c", "h", "a", "n">>))

\* "spectrum_chan([0-9]{1,2})\.pdf"
_fmt_rawadc_spec(s) == chan_pdf(s, lit(s, 1, <<"s", "p", "e", "c", "t", "r", "u", "m", "_", "c", "h", "a", "n">>))

\* "[0-9]{6}\.h5"
_fmt_rawadc_h5(s) == lit(s, rep(s, 1, Digit, 6), H5)

\* "(gains|gains_noisy)\.pkl"
_fmt_raw_gains(s) == alt(s, 1, <<"g", "a", "i", "n", "s">>, <<"g", "a", "i", "n", "s", "_", "n", "o", "i", "s", "y">>, <<".", "p", "k", "l">>)

\* "(20[12][0-9][01][0-9][0123][0-9])\.h5"
_fmt_weather(s) ==
    lit(s, one(s, one(s, one(s, one(s, one(s, one(s, lit(s, 1, <<"2", "0">>),
        {"1", "2"}), Digit), {"0", "1"}), Digit), {"0", "1", "2", "3"}), Digit), H5)

\* r"\d{8}\.h5" (on the ASCII names modelled here \d is [0-9])
_fmt_calib_data(s) == lit(s, rep(s, 1, Digit, 8), H5)

\* "([0-9]{8})_([A-Za-z][A-Za-z0-9_+-]*)\.misc\.tar(?:\.gz|\.bz2|\.xz)"
_fmt_misc_tar(s) ==
    LET p == lit(s, star(s, one(s, lit(s, rep(s, 1, Digit, 8), <<"_">>), Alpha),
                         Alnum \cup {"_", "+", "-"}), <<".", "m", "i", "s", "c", ".", "t", "a", "r">>)
    IN  IF lit(s, p, <<".", "g", "z">>) # 0 THEN lit(s, p, <<".", "g", "z">>)
        ELSE IF lit(s, p, <<".", "b", "z", "2">>) # 0 THEN lit(s, p, <<".", "b", "z", "2">>)
        ELSE lit(s, p, <<".", "x", "z">>)

\* re.match(pattern, name) is truthy
matches(p) == p # 0

\* an exception raised with the text as it stands, the "% name" left out
ValidationError_unformatted(text, s) == text \o <<"%", "s", "\"", ".">>

\* db.ValidationError(text % name): the message of the exception, the text
\* with the name put between its double quotes
ValidationError(text, s) == text \o s \o <<"\"", ".">>

\* the value of one decimal digit
DigitVal(c) ==
    CASE c = "0" -> 0 [] c = "1" -> 1 [] c = "2" -> 2 [] c = "3" -> 3
      [] c = "4" -> 4 [] c = "5" -> 5 [] c = "6" -> 6 [] c = "7" -> 7
      [] c = "8" -> 8 [] c = "9" -> 9

\* a conversion that reads the digits in base 8
RECURSIVE int_octal(_)
int_octal(s) ==
    IF s = <<>> THEN 0
    ELSE 8 * int_octal(SubSeq(s, 1, Len(s) - 1)) + DigitVal(s[Len(s)])

\* int(str) of a run of decimal digits: the base-10 value
RECURSIVE int(_)
int(s) ==
    IF s = <<>> THEN 0
    ELSE 10 * int(SubSeq(s, 1, Len(s) - 1)) + DigitVal(s[Len(s)])

\* the first piece of s up to (not including) the first sep, from position p
RECURSIVE upto(_, _, _)
upto(s, p, sep) ==
    IF p > Len(s) \/ s[p] = sep THEN p ELSE upto(s, p + 1, sep)

\* a split that stops after the first separator (str.split(sep, 1))
split_once(s, sep) ==
    LET q == upto(s, 1, sep)
    IN  IF q > Len(s) THEN <<s>>
        ELSE <<SubSeq(s, 1, q - 1), SubSeq(s, q + 1, Len(s))>>

\* str.split(sep): the pieces between the separators, empty pieces included
RECURSIVE split(_, _)
split(s, sep) ==
    LET q == upto(s, 1, sep)
    IN  IF q > Len(s) THEN <<s>>
        ELSE <<SubSeq(s, 1, q - 1)>> \o split(SubSeq(s, q + 1, Len(s)), sep)

\* 'Bad acquisition name format for "%s".'
BadAcq == <<"B", "a", "d", " ", "a", "c", "q", "u", "i", "s", "i", "t", "i", "o", "n", " ", "n", "a", "m", "e", " ", "f", "o", "r", "m", "a", "t", " ", "f", "o", "r", " ", "\"">>

\* parse_acq_name(name): <<outcome, returned tuple>>, or
\* <<"ValidationError", message>> when it raises
parse_acq_name_of(s) ==
    IF ~ matches(_fmt_acq(s)) THEN <<"ValidationError", ValidationError(BadAcq, s)>>
    ELSE LET r == split(s, "_")
         IN  IF Len(r) # 3 THEN <<"ValidationError", ValidationError(BadAcq, s)>>
             ELSE <<"ok", r>>

AcqPieces == {
    <<"2", "0", "2", "3", "0", "1", "0", "1", "T", "0", "0", "0", "0", "0", "0", "Z", "_">>,
    <<"2", "0", "2", "3", "0", "1", "0">>,
    <<"c", "h", "i", "m", "e">>,
    <<"c", "o", "r", "r">>,
    <<"_">>,
    <<"9">> }

\* pieces an acquisition name is assembled from
MaxAcqSegs == 5

AppendAcq(piece) ==
    /\ npieces < MaxAcqSegs
    /\ npieces' = npieces + 1
    /\ name' = name \o piece
    /\ log' = Logged("name", "ok")
    /\ ret' = Returned(<<>>, None)
    /\ UNCHANGED <<AcqType, FileType, AcqFileTypes, ArchiveInst, archive, local, backend, pre, nops>>

parse_acq_name ==
    LET r == parse_acq_name_of(name)
    IN  /\ log' = Logged("parse_acq_name", r[1])
        /\ ret' = Returned(r[2], None)
        /\ UNCHANGED <<AcqType, FileType, AcqFileTypes, ArchiveInst, archive, local, backend, pre, nops, name, npieces>>

\* the parsers do not touch the database
InitAcq == Init /\ backend = "sqlite"

NextAcq ==
    \/ \E piece \in AcqPieces : AppendAcq(piece)
    \/ parse_acq_name

SpecAcq == InitAcq /\ [][NextAcq]_vars

(***************************************************************************)
(* The file name parsers                                                   *)
(***************************************************************************)
\* 'Bad correlator file name format for "%s".' (also parse_hkfile_name's text)
BadCorr == <<"B", "a", "d", " ", "c", "o", "r", "r", "e", "l", "a", "t", "o", "r", " ", "f", "i", "l", "e", " ", "n", "a", "m", "e", " ", "f", "o", "r", "m", "a", "t", " ", "f", "o", "r", " ", "\"">>

\* 'Bad HFB file name format for "%s".'
BadHfb == <<"B", "a", "d", " ", "H", "F", "B", " ", "f", "i", "l", "e", " ", "n", "a", "m", "e", " ", "f", "o", "r", "m", "a", "t", " ", "f", "o", "r", " ", "\"">>

\* 'Bad weather file name format for "%s".'
BadWeather == <<"B", "a", "d", " ", "w", "e", "a", "t", "h", "e", "r", " ", "f", "i", "l", "e", " ", "n", "a", "m", "e", " ", "f", "o", "r", "m", "a", "t", " ", "f", "o", "r", " ", "\"">>

\* 'Bad miscellaneous file name format for "{0}".'
BadMisc == <<"B", "a", "d", " ", "m", "i", "s", "c", "e", "l", "l", "a", "n", "e", "o", "u", "s", " ", "f", "i", "l", "e", " ", "n", "a", "m", "e", " ", "f", "o", "r", "m", "a", "t", " ", "f", "o", "r", " ", "\"">>

\* parse_corrfile_name(name): <<"ok", <<int(group 1), int(group 2)>>>>, or
\* <<"ValidationError", message>>
parse_corrfile_name_of(s) ==
    IF ~ matches(_fmt_corr(s)) THEN <<"ValidationError", ValidationError(BadCorr, s)>>
    ELSE <<"ok", <<int(SubSeq(s, 1, 8)), int(SubSeq(s, 10, 13))>>>>

\* parse_hfbfile_name(name): the groups follow the literal "hfb_"
parse_hfbfile_name_of(s) ==
    IF ~ matches(_fmt_hfb(s)) THEN <<"ValidationError", ValidationError(BadHfb, s)>>
    ELSE <<"ok", <<int(SubSeq(s, 5, 12)), int(SubSeq(s, 14, 17))>>>>

\* parse_weatherfile_name(name): name[0:8]
parse_weatherfile_name_of(s) ==
    IF ~ matches(_fmt_weather(s)) THEN <<"ValidationError", ValidationError(BadWeather, s)>>
    ELSE <<"ok", SubSeq(s, 1, 8)>>

\* parse_miscfile_name(name): <<int(group 1), group 2>>; group 2 runs from
\* position 10 to the end of the [A-Za-z0-9_+-]* run
parse_miscfile_name_of(s) ==
    IF ~ matches(_fmt_misc_tar(s)) THEN <<"ValidationError", ValidationError(BadMisc, s)>>
    ELSE LET e == star(s, 11, Alnum \cup {"_", "+", "-"})
         IN  <<"ok", <<int(SubSeq(s, 1, 8)), SubSeq(s, 10, e - 1)>>>>

\* parse_hkfile_name(name): <<int(group 2), group 1>>; group 1 is the
\* [A-Za-z]* run at the start, group 2 the 8 digits after the underscore
parse_hkfile_name_of(s) ==
    IF ~ matches(_fmt_hk(s)) THEN <<"ValidationError", ValidationError(BadCorr, s)>>
    ELSE LET e == star(s, 1, Alpha)
         IN  <<"ok", <<int(SubSeq(s, e + 1, e + 8)), SubSeq(s, 1, e - 1)>>>>

\* pieces the names handed to the parsers are put together from
ParsePieces == {
    <<"0", "0", "0", "0", "0", "0", "0", "1">>,
    <<"2", "0", "2", "3", "0", "1", "0", "1">>,
    <<"_", "0", "0", "0", "2", ".", "h", "5">>,
    <<"_", "0", "0", "1", "0", ".", "h", "5">>,
    <<"h", "f", "b", "_", "0", "0", "0", "0", "0", "0", "0", "1">>,
    <<".", "h", "5">>,
    <<"_", "a", "b", "c", ".", "m", "i", "s", "c", ".", "t", "a", "r", ".", "g", "z">>,
    <<"a", "t", "m", "e", "l">>,
    <<"_", "2", "0", "2", "3", "0", "1", "0", "1", ".", "h", "5">>,
    <<"T", "0", "0", "0", "0", "0", "0", "Z", "_", "c", "h", "i", "m", "e", "_", "c", "o", "r", "r">> }

AppendParse(piece) ==
    /\ npieces < MaxSegs
    /\ npieces' = npieces + 1
    /\ name' = name \o piece
    /\ log' = Logged("name", "ok")
    /\ ret' = Returned(<<>>, None)
    /\ UNCHANGED <<AcqType, FileType, AcqFileTypes, ArchiveInst, archive, local, backend, pre, nops>>

\* a parser call: its outcome is logged and its result handed back
Parsed(op, r) ==
    /\ log' = Logged(op, r[1])
    /\ ret' = Returned(r[2], None)
    /\ UNCHANGED <<AcqType, FileType, AcqFileTypes, ArchiveInst, archive, local, backend, pre, nops, name, npieces>>

parse_corrfile_name == Parsed("parse_corrfile_name", parse_corrfile_name_of(name))

parse_hfbfile_name == Parsed("parse_hfbfile_name", parse_hfbfile_name_of(name))

parse_weatherfile_name == Parsed("parse_weatherfile_name", parse_weatherfile_name_of(name))

parse_miscfile_name == Parsed("parse_miscfile_name", parse_miscfile_name_of(name))

parse_hkfile_name == Parsed("parse_hkfile_name", parse_hkfile_name_of(name))

\* the parsers do not touch the database
InitParse == Init /\ backend = "sqlite"

NextParse ==
    \/ \E piece \in ParsePieces : AppendParse(piece)
    \/ parse_acq_name
    \/ parse_corrfile_name
    \/ parse_hfbfile_name
    \/ parse_weatherfile_name
    \/ parse_miscfile_name
    \/ parse_hkfile_name

SpecParse == InitParse /\ [][NextParse]_vars

(***************************************************************************)
(* detect_file_type                                                        *)
(***************************************************************************)
\* a chain that tests the calibration pattern before the weather pattern
DetectName_calibFirst(s) ==
    IF matches(_fmt_corr(s)) THEN "corr"
    ELSE IF matches(_fmt_hfb(s)) THEN "hfb"
    ELSE IF matches(_fmt_hk(s)) THEN "hk"
    ELSE IF matches(_fmt_hkp(s)) THEN "hkp"
    ELSE IF matches(_fmt_log(s)) THEN "log"
    ELSE IF matches(_fmt_atmel(s)) THEN "atmel_id"
    ELSE IF matches(_fmt_rawadc(s)) \/ matches(_fmt_rawadc_h5(s)) THEN "rawadc"
    ELSE IF matches(_fmt_rawadc_hist(s)) \/ matches(_fmt_rawadc_spec(s)) THEN "pdf"
    ELSE IF matches(_fmt_raw_gains(s)) THEN "pkl"
    ELSE IF matches(_fmt_calib_data(s)) THEN "calibration"
    ELSE IF matches(_fmt_weather(s)) THEN "weather"
    ELSE IF matches(_fmt_misc_tar(s)) THEN "miscellaneous"
    ELSE None

\* The if / elif chain of detect_file_type: the FileType name it goes on to
\* look up, None when it falls through to `return None`
DetectName(s) ==
    IF matches(_fmt_corr(s)) THEN "corr"
    ELSE IF matches(_fmt_hfb(s)) THEN "hfb"
    ELSE IF matches(_fmt_hk(s)) THEN "hk"
    ELSE IF matches(_fmt_hkp(s)) THEN "hkp"
    ELSE IF matches(_fmt_log(s)) THEN "log"
    ELSE IF matches(_fmt_atmel(s)) THEN "atmel_id"
    ELSE IF matches(_fmt_rawadc(s)) \/ matches(_fmt_rawadc_h5(s)) THEN "rawadc"
    ELSE IF matches(_fmt_rawadc_hist(s)) \/ matches(_fmt_rawadc_spec(s)) THEN "pdf"
    ELSE IF matches(_fmt_raw_gains(s)) THEN "pkl"
    ELSE IF matches(_fmt_weather(s)) THEN "weather"
    ELSE IF matches(_fmt_calib_data(s)) THEN "calibration"
    ELSE IF matches(_fmt_misc_tar(s)) THEN "miscellaneous"
    ELSE None

\* FileType.get(name=n): <<outcome, <<row>>>>; raises DoesNotExist when no
\* row has the name
FileType_get(rows, n) ==
    IF \E r \in rows : r.name = n
    THEN <<"ok", <<CHOOSE r \in rows : r.name = n>>>>
    ELSE <<"DoesNotExist", <<>>>>

\* a detector whose fall-through branch also goes to the FileType table
detect_file_type_of_alwaysGet(rows, s) ==
    <<FileType_get(rows, DetectName(s))[1], FileType_get(rows, DetectName(s))[2],
      DetectName(s)>>

\* detect_file_type(name): <<outcome, returned value, name looked up>>
detect_file_type_of(rows, s) ==
    LET t == DetectName(s)
    IN  IF t = None THEN <<"ok", <<>>, None>>
        ELSE <<FileType_get(rows, t)[1], FileType_get(rows, t)[2], t>>

FilePieces == {
    <<"h", "f", "b", "_">>,
    <<"2", "0", "2", "3", "0", "1", "0", "1">>,
    <<"1", "9", "9", "9", "0", "1", "0", "1">>,
    <<"_", "0", "0", "0", "0", ".", "h", "5">>,
    <<".", "h", "5">>,
    <<"g", "a", "r", "b", "a", "g", "e", ".", "x", "y", "z">>,
    <<"h", "k", "p", "_", "p", "r", "o", "m", "_">>,
    <<"c", "h", "_", "m", "a", "s", "t", "e", "r", ".", "l", "o", "g">>,
    <<"a", "t", "m", "e", "l", "_", "i", "d", ".", "d", "a", "t">>,
    <<"r", "a", "w", "a", "d", "c", ".", "n", "p", "y">>,
    <<"h", "i", "s", "t", "o", "g", "r", "a", "m", "_", "c", "h", "a", "n", "1", ".", "p", "d", "f">>,
    <<"g", "a", "i", "n", "s", ".", "p", "k", "l">>,
    <<"_", "a", "b", "c", ".", "m", "i", "s", "c", ".", "t", "a", "r", ".", "g", "z">> }

AppendFile(piece) ==
    /\ npieces < MaxSegs
    /\ npieces' = npieces + 1
    /\ name' = name \o piece
    /\ log' = Logged("name", "ok")
    /\ ret' = Returned(<<>>, None)
    /\ UNCHANGED <<AcqType, FileType, AcqFileTypes, ArchiveInst, archive, local, backend, pre, nops>>

detect_file_type ==
    LET r == detect_file_type_of(FileType, name)
    IN  /\ log' = Logged("detect_file_type", r[1])
        /\ ret' = Returned(r[2], r[3])
        /\ UNCHANGED <<AcqType, FileType, AcqFileTypes, ArchiveInst, archive, local, backend, pre, nops, name, npieces>>

\* the types are seeded, if at all, before the first file name comes in
seed_types == name = <<>> /\ FileType = {} /\ update_types

NextDetect ==
    \/ seed_types
    \/ \E piece \in FilePieces : AppendFile(piece)
    \/ detect_file_type

\* detect_file_type only reads FileType, and seeding empty tables stores the
\* same rows on either engine
InitDetect == Init /\ backend = "sqlite"

SpecDetect == InitDetect /\ [][NextDetect]_vars

(***************************************************************************)
(* Properties of the seeding routines                                      *)
(***************************************************************************)
\* the last operation was update_types and it returned without raising
SeededOk == log[1] = <<"update_types", "ok">>

\* the name of the row of `rows` with this id
NameOf(rows, id_) == (CHOOSE r \in rows : r.id = id_).name

\* acquisition type names of the canonical pairing list
PairedAcqNames == {acq_file_names[i][1] : i \in DOMAIN acq_file_names}

\* junction rows of `t` joining an acquisition type named an to a file type
\* not named fn
WrongPairs(t, an, fn) ==
    {p \in t.AcqFileTypes :
        /\ \E a \in t.AcqType : a.id = p.acq_type /\ a.name = an
        /\ \E f \in t.FileType : f.id = p.file_type /\ f.name # fn}

\* C1: after update_types() returns successfully, every acquisition type of
\* the canonical pairing list has exactly one AcqFileTypes row, that row
\* points to its canonical file type, and every pairing of it with another
\* file type that existed before the call is gone.
C1_CanonicalPairing ==
    SeededOk =>
        \A i \in DOMAIN acq_file_names :
            LET an == acq_file_names[i][1]
                fn == acq_file_names[i][2]
                as == {a \in AcqType : a.name = an}
                fs == {f \in FileType : f.name = fn}
            IN  /\ Cardinality(as) = 1
                /\ Cardinality(fs) = 1
                /\ \A a \in as, f \in fs :
                       {p \in AcqFileTypes : p.acq_type = a.id}
                           = {[acq_type |-> a.id, file_type |-> f.id]}
                /\ \A p \in WrongPairs(pre, an, fn) : p \notin AcqFileTypes

\* C1 witness: a successful call removed a pairing of corr with another file type
C1_Witness ==
    /\ SeededOk
    /\ WrongPairs(pre, "corr", "corr") # {}
    /\ [acq_type |-> 1, file_type |-> 1] \in AcqFileTypes

\* C2: after a successful update_types() every canonical name has a row, and
\* that row carries the canonical id, info_class, notes (and pattern): rows
\* found by name were updated, missing ones inserted with the fixed id.
C2_UpsertByName ==
    SeededOk =>
        /\ \A i \in DOMAIN acqtypes :
               {r \in AcqType : r.name = acqtypes[i].name} = {acqtypes[i]}
        /\ \A i \in DOMAIN filetypes :
               {r \in FileType : r.name = filetypes[i].name} = {filetypes[i]}

\* C2 witness: a successful call both updated a stale row found by name and
\* inserted rows that were missing
C2_Witness ==
    /\ SeededOk
    /\ \E r \in pre.AcqType : r.name = "corr" /\ r # acqtypes[1]
    /\ \E r \in pre.FileType : r.name = "corr" /\ r # filetypes[1]
    /\ ~ \E r \in pre.AcqType : r.name = "hfb"
    /\ \E r \in AcqType : r.name = "hfb" /\ r.id = 11 /\ r.info_class = "HFBAcqInfo"
    /\ \E r \in FileType : r.name = "calibration" /\ r.info_class = "cal_info_class"

\* C3 (as claimed): a second update_types() right after a successful one also
\* succeeds and leaves the three tables as the first call left them.
C3_Idempotent ==
    (log[1][1] = "update_types" /\ log[2] = <<"update_types", "ok">>)
        => (log[1][2] = "ok" /\ Tables = pre)

\* C4: update_types() keeps every AcqType and FileType row whose name is not
\* canonical, and every AcqFileTypes row whose acquisition type is not in the
\* canonical pairing list, exactly as they were.
C4_UnknownKept ==
    log[1][1] = "update_types" =>
        /\ \A r \in pre.AcqType :
               r.name \notin {acqtypes[i].name : i \in DOMAIN acqtypes} => r \in AcqType
        /\ \A r \in pre.FileType :
               r.name \notin {filetypes[i].name : i \in DOMAIN filetypes} => r \in FileType
        /\ \A p \in pre.AcqFileTypes :
               NameOf(pre.AcqType, p.acq_type) \notin PairedAcqNames
                   => /\ p \in AcqFileTypes
                      /\ NameOf(AcqType, p.acq_type) = NameOf(pre.AcqType, p.acq_type)
                      /\ NameOf(FileType, p.file_type) = NameOf(pre.FileType, p.file_type)

\* C4 witness: a successful call that changed the tables found unknown rows
\* of all three kinds
C4_Witness ==
    /\ SeededOk
    /\ Tables # pre
    /\ \E r \in pre.AcqType : r.name = "foo"
    /\ \E r \in pre.FileType : r.name = "bar"
    /\ \E p \in pre.AcqFileTypes : NameOf(pre.AcqType, p.acq_type) = "foo"

\* C5: a failing update_types() raises and leaves the tables exactly as they
\* were before the call.
C5_Atomic ==
    (log[1][1] = "update_types" /\ log[1][2] # "ok") => Tables = pre

\* C5 witness: the call failed after statements of it had already changed rows
C5_Witness ==
    /\ log[1] = <<"update_types", "IntegrityError">>
    /\ TablesOf(update_types_body(Begin(pre), backend)) # pre
    /\ Tables = pre

\* C6 (as claimed): update_inst() on a table that already holds the canonical
\* instrument rows completes without error and leaves the table unchanged.
C6_InstReseed ==
    (log[1][1] = "update_inst" /\ inst_rows \subseteq pre.ArchiveInst)
        => (log[1][2] = "ok" /\ ArchiveInst = pre.ArchiveInst)

(***************************************************************************)
(* Properties of the name parsers                                          *)
(***************************************************************************)
\* the whole of s matches the code's pattern _fmt_acq
FullMatchAcq(s) == _fmt_acq(s) = Len(s) + 1

\* the three groups of tokens the pattern delimits in a fully matching s:
\* <8 digits>T<6 digits>Z, the instrument token, the type token
AcqTokens(s) ==
    LET e == star(s, 18, Alnum)
    IN  <<SubSeq(s, 1, 16), SubSeq(s, 18, e - 1), SubSeq(s, e + 1, Len(s))>>

\* s is <8 digits>T<6 digits>Z_<instrument>_<type> with a non-empty
\* alphanumeric instrument token and a non-empty alphabetic type token
AcqGrammar(s) ==
    /\ FullMatchAcq(s)
    /\ AcqTokens(s)[2] # <<>>
    /\ AcqTokens(s)[3] # <<>>

\* C9: for every acquisition name that matches the grammar as a whole,
\* parse_acq_name returns exactly the three tokens (timestamp, instrument,
\* type), in that order.
C9_ParseAcqTokens ==
    (log[1][1] = "parse_acq_name" /\ FullMatchAcq(name))
        => (log[1][2] = "ok" /\ ret.value = AcqTokens(name))

\* C9 witness: "20230101T000000Z_chime_corr" was parsed into its three tokens
C9_Witness ==
    /\ log[1] = <<"parse_acq_name", "ok">>
    /\ AcqGrammar(name)
    /\ ret.value = <<<<"2", "0", "2", "3", "0", "1", "0", "1", "T", "0", "0", "0", "0", "0", "0", "Z">>,
                     <<"c", "h", "i", "m", "e">>, <<"c", "o", "r", "r">>>>

\* C10 (as claimed): for every string that deviates from the grammar,
\* parse_acq_name fails with ValidationError.
C10_DeviationFails ==
    (log[1][1] = "parse_acq_name" /\ ~ AcqGrammar(name))
        => log[1][2] = "ValidationError"

(***************************************************************************)
(* Properties of detect_file_type                                          *)
(***************************************************************************)
\* the priority order the patterns are claimed to be tested in
PatternOrder ==
    <<"corr", "hfb", "hk", "hkp", "log", "atmel_id", "rawadc", "pdf", "pkl",
      "weather", "calibration", "miscellaneous">>

\* the pattern(s) registered for file type t match at the start of s
PatternMatches(t, s) ==
    CASE t = "corr" -> matches(_fmt_corr(s))
      [] t = "hfb" -> matches(_fmt_hfb(s))
      [] t = "hk" -> matches(_fmt_hk(s))
      [] t = "hkp" -> matches(_fmt_hkp(s))
      [] t = "log" -> matches(_fmt_log(s))
      [] t = "atmel_id" -> matches(_fmt_atmel(s))
      [] t = "rawadc" -> matches(_fmt_rawadc(s)) \/ matches(_fmt_rawadc_h5(s))
      [] t = "pdf" -> matches(_fmt_rawadc_hist(s)) \/ matches(_fmt_rawadc_spec(s))
      [] t = "pkl" -> matches(_fmt_raw_gains(s))
      [] t = "weather" -> matches(_fmt_weather(s))
      [] t = "calibration" -> matches(_fmt_calib_data(s))
      [] t = "miscellaneous" -> matches(_fmt_misc_tar(s))

\* the first type of PatternOrder whose pattern matches s, None if none does
FirstMatch(s) ==
    LET hits == {i \in DOMAIN PatternOrder : PatternMatches(PatternOrder[i], s)}
    IN  IF hits = {} THEN None
        ELSE PatternOrder[CHOOSE i \in hits : \A j \in hits : i <= j]

Detected == log[1][1] = "detect_file_type"

\* C7: detect_file_type classifies a name by the first pattern, in the fixed
\* order corr, hfb, hk, hkp, log, atmel_id, rawadc, pdf, pkl, weather,
\* calibration, miscellaneous, that matches it: that type is the one it looks
\* up and, when it returns a row, the row is of that type; a name matching
\* both the weather and the calibration pattern is classified as weather.
C7_FirstMatchWins ==
    Detected =>
        LET hits  == {i \in DOMAIN PatternOrder : PatternMatches(PatternOrder[i], name)}
            first == IF hits = {} THEN None
                     ELSE PatternOrder[CHOOSE i \in hits : \A j \in hits : i <= j]
        IN  /\ ret.get = first
            /\ \A i \in DOMAIN ret.value : ret.value[i].name = first
            /\ (matches(_fmt_weather(name)) /\ matches(_fmt_calib_data(name)))
                   => ret.get = "weather"
            /\ \A i \in hits, j \in DOMAIN PatternOrder : i < j => ret.get # PatternOrder[j]

\* C7 witness: a name matching both the weather and the calibration pattern
\* (and no earlier one) came back as the weather row
C7_Witness ==
    /\ log[1] = <<"detect_file_type", "ok">>
    /\ matches(_fmt_weather(name))
    /\ matches(_fmt_calib_data(name))
    /\ Len(ret.value) = 1
    /\ ret.value[1].name = "weather"

GarbageXyz == <<"g", "a", "r", "b", "a", "g", "e", ".", "x", "y", "z">>

CorrH5 == <<"2", "0", "2", "3", "0", "1", "0", "1", "_", "0", "0", "0", "0", ".", "h", "5">>

HfbH5 == <<"h", "f", "b", "_", "2", "0", "2", "3", "0", "1", "0", "1", "_", "0", "0", "0", "0", ".", "h", "5">>

\* C8: a name no pattern matches ("garbage.xyz") gives None, with no error
\* and no FileType lookup; "20230101_0000.h5" is classified as corr and
\* "hfb_20230101_0000.h5" as hfb.
C8_NoMatchIsNone ==
    Detected =>
        /\ (\A i \in DOMAIN PatternOrder : ~ PatternMatches(PatternOrder[i], name))
               => (log[1][2] = "ok" /\ ret.value = <<>> /\ ret.get = None)
        /\ name = GarbageXyz
               => (log[1][2] = "ok" /\ ret.value = <<>> /\ ret.get = None)
        /\ name = CorrH5 => ret.get = "corr"
        /\ name = HfbH5 => ret.get = "hfb"
        /\ (name = CorrH5 /\ filetypes[1] \in FileType)
               => (log[1][2] = "ok" /\ ret.value = <<filetypes[1]>>)
        /\ (name = HfbH5 /\ filetypes[10] \in FileType)
               => (log[1][2] = "ok" /\ ret.value = <<filetypes[10]>>)

\* C8 witness: "garbage.xyz" was given to detect_file_type on seeded tables
C8_Witness ==
    /\ Detected
    /\ name = GarbageXyz
    /\ FileType # {}
    /\ ret = Returned(<<>>, None)

\* C8 witness, second case: "hfb_20230101_0000.h5" came back as the hfb row
C8_WitnessHfb ==
    /\ Detected
    /\ name = HfbH5
    /\ ret.value = <<filetypes[10]>>

(***************************************************************************)
(* Properties of the file name parsers                                     *)
(***************************************************************************)
\* the decimal digit of a value below ten
DigitChar(d) ==
    CASE d = 0 -> "0" [] d = 1 -> "1" [] d = 2 -> "2" [] d = 3 -> "3"
      [] d = 4 -> "4" [] d = 5 -> "5" [] d = 6 -> "6" [] d = 7 -> "7"
      [] d = 8 -> "8" [] d = 9 -> "9"

\* n written in base 10 with leading zeros, w digits wide
RECURSIVE Decimal(_, _)
Decimal(n, w) ==
    IF w = 0 THEN <<>> ELSE Decimal(n \div 10, w - 1) \o <<DigitChar(n % 10)>>

\* eight-digit and four-digit fields of correlator file names
CorrFields8 == {<<"0", "0", "0", "0", "0", "0", "0", "1">>, <<"0", "0", "0", "0", "0", "0", "1", "0">>, <<"2", "0", "2", "3", "0", "1", "0", "1">>}
CorrFields4 == {<<"0", "0", "0", "2">>, <<"0", "0", "0", "8">>, <<"0", "0", "1", "0">>}

\* the correlator file name with these two fields
CorrName(d, f) == d \o <<"_">> \o f \o H5

\* C11: for every file name the correlator pattern DDDDDDDD_FFFF.h5 matches,
\* parse_corrfile_name returns a pair of integers whose base-10 rendering,
\* zero padded to 8 and 4 digits, is the two fields (so leading zeros do not
\* change the value), and a correlator name gives the same pair only if its
\* fields are the same.
C11_CorrInts ==
    (log[1][1] = "parse_corrfile_name" /\ matches(_fmt_corr(name)))
        => /\ log[1][2] = "ok"
           /\ Len(ret.value) = 2
           /\ ret.value[1] \in 0 .. 99999999
           /\ ret.value[2] \in 0 .. 9999
           /\ Decimal(ret.value[1], 8) = SubSeq(name, 1, 8)
           /\ Decimal(ret.value[2], 4) = SubSeq(name, 10, 13)
           /\ \A d \in CorrFields8, f \in CorrFields4 :
                  parse_corrfile_name_of(CorrName(d, f))[2] = ret.value
                      <=> (d = SubSeq(name, 1, 8) /\ f = SubSeq(name, 10, 13))

\* C11 witness: "00000001_0002.h5" was parsed into (1, 2)
C11_Witness ==
    /\ log[1] = <<"parse_corrfile_name", "ok">>
    /\ name = CorrName(<<"0", "0", "0", "0", "0", "0", "0", "1">>, <<"0", "0", "0", "2">>)
    /\ ret.value = <<1, 2>>

\* the operations that are filename parsers
Parsers == {"parse_acq_name", "parse_corrfile_name", "parse_hfbfile_name",
            "parse_weatherfile_name", "parse_miscfile_name", "parse_hkfile_name"}

\* where the match of parser op's pattern at the start of s ends (0: no match)
PatternOf(op, s) ==
    CASE op = "parse_acq_name" -> _fmt_acq(s)
      [] op = "parse_corrfile_name" -> _fmt_corr(s)
      [] op = "parse_hfbfile_name" -> _fmt_hfb(s)
      [] op = "parse_weatherfile_name" -> _fmt_weather(s)
      [] op = "parse_miscfile_name" -> _fmt_misc_tar(s)
      [] op = "parse_hkfile_name" -> _fmt_hk(s)

\* s occurs in msg
Contains(msg, s) ==
    \E i \in 1 .. Len(msg) - Len(s) + 1 : SubSeq(msg, i, i + Len(s) - 1) = s

\* a str: a sequence of characters
IsStr(v) == \A i \in DOMAIN v : v[i] \in Alnum \cup {"_", "+", "-", "."}

\* v is the complete result of parser op: every field there, of its type
FixedShape(op, v) ==
    CASE op = "parse_acq_name" -> Len(v) = 3 /\ \A i \in 1 .. 3 : IsStr(v[i])
      [] op \in {"parse_corrfile_name", "parse_hfbfile_name"} ->
             Len(v) = 2 /\ v[1] \in Nat /\ v[2] \in Nat
      [] op = "parse_weatherfile_name" -> Len(v) = 8 /\ \A i \in 1 .. 8 : v[i] \in Digit
      [] op \in {"parse_miscfile_name", "parse_hkfile_name"} ->
             Len(v) = 2 /\ v[1] \in Nat /\ IsStr(v[2])

\* the last call was a parser's and it raised ValidationError with the name
\* in the message
FailedWithName ==
    /\ log[1][2] = "ValidationError"
    /\ Contains(ret.value, name)

\* the last call was a parser's and it returned its complete result
ReturnedComplete ==
    /\ log[1][2] = "ok"
    /\ FixedShape(log[1][1], ret.value)

\* C12 (as claimed): every parser, given a name its pattern does not match at
\* position 0, raises ValidationError with the name in the message; given a
\* name whose prefix matches, it returns its complete fixed-shape result,
\* also when characters follow the match.
C12_PrefixMatchDecides ==
    log[1][1] \in Parsers =>
        IF matches(PatternOf(log[1][1], name)) THEN ReturnedComplete ELSE FailedWithName

\* C12 (amended): as claimed for the five file parsers; parse_acq_name, given
\* a name whose prefix matches, returns its three tokens when the name splits
\* on "_" into exactly three pieces and raises ValidationError with the name
\* in the message otherwise.
C12_PrefixMatchAndSplit ==
    log[1][1] \in Parsers =>
        IF /\ matches(PatternOf(log[1][1], name))
           /\ log[1][1] = "parse_acq_name" => Len(split(name, "_")) = 3
        THEN ReturnedComplete
        ELSE FailedWithName

\* C12 witness: the housekeeping parser returned (20230101, "atmel") for a
\* name with characters after the match, right after the correlator parser
\* had refused the same name
C12_Witness ==
    /\ log[1] = <<"parse_hkfile_name", "ok">>
    /\ log[2] = <<"parse_corrfile_name", "ValidationError">>
    /\ _fmt_hk(name) \in 2 .. Len(name)
    /\ ret.value = <<20230101, <<"a", "t", "m", "e", "l">>>>

\* C12 witness of the amended case: parse_acq_name refused a name whose
\* prefix matches its pattern
C12_WitnessAcq ==
    /\ log[1] = <<"parse_acq_name", "ValidationError">>
    /\ matches(_fmt_acq(name))
    /\ Contains(ret.value, name)

(***************************************************************************)
(* Properties of the tables                                                *)
(***************************************************************************)
\* C16 (as claimed): no two ArchiveInst rows share a name and no two FileType
\* rows share a name, and an insert of a row whose name another row of the
\* table already has fails with a constraint-violation error.
C16_InstAndFileTypeNamesUnique ==
    /\ UniqueNameOk(ArchiveInst)
    /\ UniqueNameOk(FileType)
    /\ \A r \in (FileType \ pre.FileType) \cup (ArchiveInst \ pre.ArchiveInst) :
           log[1] = <<"insert", "ok">> =>
               \A q \in pre.FileType \cup pre.ArchiveInst : q.name # r.name

\* the last operation was this write, whatever its outcome
LastWrite(op) == Len(log[1]) = 3 /\ log[1][1] = op

\* the arguments of the last write
Args == log[1][3]

\* the last write was an ArchiveFileCopy insert whose enum arguments are
\* choices of their fields (or left out)
CopyEnumsValid ==
    /\ FieldValue(has_file_enum, Args[3]) \in {"N", "Y", "M", "X"}
    /\ FieldValue(wants_file_enum, Args[4]) \in {"Y", "M", "N"}

\* C13: no two ArchiveFileCopy rows have the same (file, node) pair, after
\* inserts and updates alike; an insert of a second row for a pair that has
\* one fails (with IntegrityError when there is nothing else wrong with it)
\* and leaves the table as it was.
C13_CopyKeyedByFileNode ==
    /\ \A c1, c2 \in ArchiveFileCopy :
           (c1.file = c2.file /\ c1.node = c2.node) => c1 = c2
    /\ (/\ LastWrite("ArchiveFileCopy.insert")
        /\ \E c \in pre.ArchiveFileCopy : c.file = Args[1] /\ c.node = Args[2])
           => /\ log[1][2] # "ok"
              /\ CopyEnumsValid => log[1][2] = "IntegrityError"
              /\ ArchiveFileCopy = pre.ArchiveFileCopy

\* C13 witness: a second copy of file 1 on node 1 was refused
C13_Witness ==
    /\ LastWrite("ArchiveFileCopy.insert")
    /\ log[1][2] = "IntegrityError"
    /\ Args[1] = 1 /\ Args[2] = 1
    /\ \E c \in ArchiveFileCopy : c.file = 1 /\ c.node = 1
    /\ ArchiveFileCopy = pre.ArchiveFileCopy

\* C13 witness for updates: moving a copy onto a (file, node) pair that
\* another copy holds was refused
C13_WitnessUpdate ==
    /\ LastWrite("update")
    /\ Args[1] = "ArchiveFileCopy"
    /\ Args[3] = "node"
    /\ log[1][2] = "IntegrityError"
    /\ Cardinality(ArchiveFileCopy) = 2

\* C14 (as claimed): at most one ArchiveFileCopyRequest row exists for each
\* (file, group_to, node_from) triple; an insert of a second request with
\* the same triple does not create a second row.
C14_OneRequestPerTriple ==
    \A r1, r2 \in ArchiveFileCopyRequest :
        (r1.file = r2.file /\ r1.group_to = r2.group_to /\ r1.node_from = r2.node_from)
            => r1 = r2

\* C15 (as claimed): no two ArchiveFile rows of the same acquisition have
\* the same name; an insert of a second file with an (acquisition, name)
\* pair that exists fails with a constraint-violation error.
C15_FileNameUniqueInAcq ==
    /\ \A f1, f2 \in ArchiveFile : (f1.acq = f2.acq /\ f1.name = f2.name) => f1 = f2
    /\ (/\ LastWrite("ArchiveFile.insert")
        /\ \E f \in pre.ArchiveFile : f.acq = Args[1] /\ f.name = Args[2])
           => log[1][2] = "IntegrityError"

\* the tables whose names C17 is about, each with the insert that writes it
NamedTables == {<<"ArchiveAcq", "ArchiveAcq.insert">>, <<"StorageGroup", "StorageGroup.insert">>,
                <<"StorageNode", "StorageNode.insert">>}

\* C17: no two ArchiveAcq rows, no two AcqType rows, no two StorageGroup rows
\* and no two StorageNode rows share a name, after inserts and updates
\* alike; an insert whose name a row of the table already has fails (with
\* IntegrityError when nothing else is wrong with it), and a failed write
\* leaves every table as it was.
C17_NamesUnique ==
    /\ \A t \in {"ArchiveAcq", "AcqType", "StorageGroup", "StorageNode"} :
           \A r1, r2 \in Tables[t] : r1.name = r2.name => r1 = r2
    /\ \A k \in NamedTables :
           (LastWrite(k[2]) /\ \E r \in pre[k[1]] : r.name = Args[1])
               => /\ log[1][2] # "ok"
                  /\ (k[1] = "StorageNode" => Args[3] \in {NotGiven, "A", "T", "F"})
                         => log[1][2] = "IntegrityError"
    /\ \A r \in AcqType \ pre.AcqType :
           log[1] = <<"insert", "ok">> => \A q \in pre.AcqType : q.name # r.name
    /\ log[1][2] # "ok" => Tables = pre

\* C17 witness: a second storage node named "node_a" was refused and nothing
\* was written, after a second acquisition named "acq_a" had been refused
C17_Witness ==
    /\ LastWrite("StorageNode.insert")
    /\ Args[1] = "node_a"
    /\ log[1][2] = "IntegrityError"
    /\ log[2][1] = "ArchiveAcq.insert"
    /\ log[2][2] = "IntegrityError"
    /\ Tables = pre

\* C17 witness for acquisition types and updates: a second acquisition type
\* named "corr" was refused, after renaming node 2 to "node_a" had been
C17_WitnessAcqType ==
    /\ log[1] = <<"insert", "IntegrityError">>
    /\ \E a \in AcqType : a.name = "corr"
    /\ log[2][1] = "update"
    /\ log[2][2] = "IntegrityError"
    /\ log[2][3] = <<"StorageNode", 2, "name", "node_a">>
    /\ Tables = pre

\* C18: every ArchiveFileCopy row has has_file in {N, Y, M, X} and wants_file
\* in {Y, M, N}, every StorageNode row has storage_type in {A, T, F}, and a
\* row created without a value for one of them gets has_file = N,
\* wants_file = Y, storage_type = A.
C18_EnumsClosed ==
    /\ \A c \in ArchiveFileCopy :
           c.has_file \in {"N", "Y", "M", "X"} /\ c.wants_file \in {"Y", "M", "N"}
    /\ \A n \in StorageNode : n.storage_type \in {"A", "T", "F"}
    /\ (LastWrite("ArchiveFileCopy.insert") /\ log[1][2] = "ok")
           => /\ Cardinality(ArchiveFileCopy \ pre.ArchiveFileCopy) = 1
              /\ \A c \in ArchiveFileCopy \ pre.ArchiveFileCopy :
                     /\ Args[3] = NotGiven => c.has_file = "N"
                     /\ Args[4] = NotGiven => c.wants_file = "Y"
    /\ (LastWrite("StorageNode.insert") /\ log[1][2] = "ok")
           => /\ Cardinality(StorageNode \ pre.StorageNode) = 1
              /\ \A n \in StorageNode \ pre.StorageNode :
                     Args[3] = NotGiven => n.storage_type = "A"

\* C18 witness: a copy created without values got has_file = N and
\* wants_file = Y, after a node with storage_type "Z" had been refused
C18_Witness ==
    /\ LastWrite("ArchiveFileCopy.insert")
    /\ log[1][2] = "ok"
    /\ Args[3] = NotGiven /\ Args[4] = NotGiven
    /\ \E c \in ArchiveFileCopy \ pre.ArchiveFileCopy :
           c.has_file = "N" /\ c.wants_file = "Y"
    /\ log[2][1] = "StorageNode.insert"
    /\ log[2][2] = "ValueError"

\* C18 witness for the node default: a node created without a storage type
\* got storage_type = A, after has_file = "Z" had been refused in an update
C18_WitnessNode ==
    /\ LastWrite("StorageNode.insert")
    /\ log[1][2] = "ok"
    /\ Args[3] = NotGiven
    /\ \E n \in StorageNode \ pre.StorageNode : n.storage_type = "A"
    /\ log[2][1] = "update"
    /\ log[2][2] = "ValueError"

(***************************************************************************)
(* Properties of ArchiveAcq.start_time and ArchiveAcq.finish_time          *)
(***************************************************************************)
\* the info rows, of any model, of the files of acquisition acq
LinkedRows(acq) ==
    {r \in FileInfo : \E f \in ArchiveFile : f.id = r.file /\ f.acq = acq}

\* the values the linked info rows of acq hold in a time column
TimeValues(acq, column) ==
    {r[column][1] : r \in {q \in LinkedRows(acq) : q[column] # Null}}

\* the least and the greatest of a non-empty set of numbers
Least(S) == CHOOSE v \in S : \A w \in S : v <= w
Greatest(S) == CHOOSE v \in S : \A w \in S : v >= w

\* C19 (as claimed): for an acquisition with a linked info row that holds a
\* time value, start_time is the least start_time and finish_time the
\* greatest finish_time of its linked info rows, whatever the values are
\* (0 included).
C19_MinMaxOfInfoRows ==
    /\ (LastWrite("start_time") /\ TimeValues(Args[1], "start_time") # {})
           => ret.value = <<Least(TimeValues(Args[1], "start_time"))>>
    /\ (LastWrite("finish_time") /\ TimeValues(Args[1], "finish_time") # {})
           => ret.value = <<Greatest(TimeValues(Args[1], "finish_time"))>>

\* C20: for an acquisition none of whose files has an info row, start_time
\* is the sentinel 1e99 and finish_time the sentinel -1e99, neither is zero.
C20_SentinelsWithoutInfo ==
    /\ (LastWrite("start_time") /\ LinkedRows(Args[1]) = {})
           => (ret.value = <<Huge>> /\ ret.value # <<0>>)
    /\ (LastWrite("finish_time") /\ LinkedRows(Args[1]) = {})
           => (ret.value = <<0 - Huge>> /\ ret.value # <<0>>)

\* C20 witness: acquisition 2 has no info row while acquisition 1 has one;
\* its start_time was read as 1e99 and then its finish_time as -1e99
C20_Witness ==
    /\ LastWrite("finish_time")
    /\ Args = <<2>>
    /\ ret.value = <<0 - Huge>>
    /\ log[2] = <<"start_time", "ok", <<2>>>>
    /\ LinkedRows(2) = {}
    /\ LinkedRows(1) # {}

(***************************************************************************)
(* Properties of type detection over the seeded types                      *)
(***************************************************************************)
\* update_types has stored every canonical file type
TypesSeeded == \A i \in DOMAIN filetypes : filetypes[i] \in FileType

\* C21: a file type with no pattern is never auto-detected: over the types
\* as seeded by update_types, every FileType row detect_file_type returns
\* has a non-null pattern.
C21_DetectedHasPattern ==
    (Detected /\ TypesSeeded) =>
        \A i \in DOMAIN ret.value : ret.value[i].pattern # None

\* C28: once update_types has seeded the tables, detect_file_type never
\* raises: whenever a name matches one of its twelve patterns, the FileType
\* row it looks up by name exists and is the row returned.
C28_LookupNeverRaises ==
    (Detected /\ TypesSeeded) =>
        /\ log[1][2] = "ok"
        /\ ret.get # None =>
               /\ \E r \in FileType : r.name = ret.get
               /\ Len(ret.value) = 1
               /\ ret.value[1].name = ret.get

(***************************************************************************)
(* Properties of the storage topology seeding                              *)
(***************************************************************************)
\* the edges of the claim: <<source node, destination group, autosync,
\* autoclean>>
CanonicalEdges == {
    <<"gong", "cedar_staging", TRUE, FALSE>>,
    <<"cedar_staging", "cedar_offload", TRUE, FALSE>>,
    <<"cedar_staging", "scinet_staging", TRUE, FALSE>>,
    <<"cedar_staging", "scinet_hpss", FALSE, TRUE>>,
    <<"cedar_offload", "cedar_nearline", TRUE, TRUE>>,
    <<"scinet_staging", "scinet_hpss", TRUE, TRUE>> }

\* the StorageTransferAction rows of t from the node named n to the group
\* named g
EdgesBetween(t, n, g) ==
    {r \in t.StorageTransferAction :
        /\ \E x \in t.StorageNode : x.id = r.node_from /\ x.name = n
        /\ \E x \in t.StorageGroup : x.id = r.group_to /\ x.name = g}

StorageEmpty(t) ==
    t.StorageGroup = {} /\ t.StorageNode = {} /\ t.StorageTransferAction = {}

\* C22: after update_storage() on an empty database the seven groups and
\* eight nodes exist and each canonical (source node, destination group)
\* pair has exactly one edge, with its flags; running update_storage again
\* never silently duplicates an edge: it fails and leaves the tables alone.
C22_StorageSeeded ==
    /\ (log[1] = <<"update_storage", "ok">> /\ StorageEmpty(pre)) =>
           /\ \A n \in {"scinet_staging", "scinet_hpss", "drao_storage", "cedar_offload",
                        "cedar_online", "cedar_staging", "cedar_nearline"} :
                  \E g \in StorageGroup : g.name = n
           /\ \A n \in {"gong", "cedar_offload", "cedar_staging", "cedar_smallfile",
                        "cedar_nearline", "cedar_online", "scinet_staging",
                        "scinet_hpss"} :
                  \E x \in StorageNode : x.name = n
           /\ \A e \in CanonicalEdges :
                  /\ Cardinality(EdgesBetween(Tables, e[1], e[2])) = 1
                  /\ \A r \in EdgesBetween(Tables, e[1], e[2]) :
                         r.autosync = e[3] /\ r.autoclean = e[4]
           /\ Cardinality(StorageTransferAction) = Cardinality(CanonicalEdges)
    /\ (log[1][1] = "update_storage" /\ log[2] = <<"update_storage", "ok">>) =>
           /\ log[1][2] = "IntegrityError"
           /\ Tables = pre
    /\ log[1][1] = "update_storage" =>
           \A r1, r2 \in StorageTransferAction :
               (r1.node_from = r2.node_from /\ r1.group_to = r2.group_to) => r1 = r2

\* C22 witness: update_storage seeded an empty database, and was then run
\* again: the second run was refused and the six edges are still six
C22_Witness ==
    /\ log[1] = <<"update_storage", "IntegrityError">>
    /\ log[2] = <<"update_storage", "ok">>
    /\ Cardinality(StorageTransferAction) = 6
    /\ Cardinality(StorageGroup) = 7
    /\ Cardinality(StorageNode) = 8

(***************************************************************************)
(* Properties of InfoBase.__init__                                         *)
(***************************************************************************)
\* the keyword was passed with a value (None stands for "not given", as the
\* defaults of the pops make it)
Given(kwargs, k) == kwargs[k] # NotGiven /\ kwargs[k] # None

Consumed == {"path_", "node_", "name_data_", "item_"}

\* C26: constructing an info record calls _set_info only if path_ is given;
\* path_ given without node_ raises ValueError before any _set_info call and
\* builds no record; the consumed keywords path_, node_, name_data_ and
\* item_ never reach the model initialiser, and item_ reaches it as acq for
\* acquisition info classes and as file for file info classes.
C26_InfoBaseInit ==
    LastWrite("InfoBase") =>
        LET is_acq == Args[1]
            kwargs == Args[2]
            r      == ret.value[1]
        IN  /\ r.set_info # <<>> => Given(kwargs, "path_")
            /\ (Given(kwargs, "path_") /\ ~ Given(kwargs, "node_")) =>
                   /\ log[1][2] = "ValueError"
                   /\ r.set_info = <<>>
                   /\ r.init = <<>>
            /\ \A i \in DOMAIN r.init : \A k \in Consumed : r.init[i][k] = NotGiven
            /\ (Given(kwargs, "item_") /\ r.init # <<>>) =>
                   /\ is_acq => r.init[1].acq = kwargs.item_
                   /\ ~ is_acq => (r.init[1].file = kwargs.item_
                                   /\ r.init[1].acq = kwargs.acq)

\* C26 witness: a file info class was constructed with path_, node_,
\* name_data_ and item_; _set_info was called once and the record built with
\* the item as file, after a construction with path_ but no node_ raised
C26_Witness ==
    /\ LastWrite("InfoBase")
    /\ log[1][2] = "ok"
    /\ Args[1] = FALSE
    /\ \A k \in Consumed : Given(Args[2], k)
    /\ Len(ret.value[1].set_info) = 1
    /\ ret.value[1].init[1].file = "item"
    /\ log[2][1] = "InfoBase"
    /\ log[2][2] = "ValueError"

(***************************************************************************)
(* Properties of md5sum_file                                               *)
(***************************************************************************)
\* md5sum_file has returned
Summed == call # <<>> /\ call.fn = "md5sum_file"

RECURSIVE Concat(_)
Concat(chunks) == IF chunks = <<>> THEN <<>> ELSE Head(chunks) \o Concat(Tail(chunks))

\* C24: md5sum_file returns the digest in the form the caller selects: the
\* 32-character lowercase hex string when hr is true, the raw 16-byte digest
\* when hr is false, whatever cmd_line is.
C24_FormFollowsHr ==
    Summed =>
        /\ call.hr => ret.value[1].form = "hex"
        /\ ~ call.hr => ret.value[1].form = "raw"

\* C25: with cmd_line false the file is read in blocks of at most block_size
\* bytes; the blocks fed to the digest, concatenated in read order, are
\* exactly the file's bytes; the loop ends at the first empty read; and the
\* result is the MD5 of the whole content, for files shorter than a block, a
\* multiple of the block size long, and spanning several blocks ("abc" gives
\* 900150983cd24fb0d6963f7d28e17f72).
C25_StreamsWholeFile ==
    (Summed /\ ~ call.cmd_line) =>
        /\ \A i \in DOMAIN call.chunks :
               /\ Len(call.chunks[i]) <= block_size
               /\ Len(call.chunks[i]) > 0
               /\ i < Len(call.chunks) => Len(call.chunks[i]) = block_size
        /\ Concat(call.chunks) = call.content
        /\ call.reads = Len(call.chunks) + 1
        /\ ret.value[1].md5_of = call.content
        /\ (call.hr /\ call.content = <<"a", "b", "c">>)
               => ret.value[1].text = "900150983cd24fb0d6963f7d28e17f72"

\* C25 witness: a file several blocks long, not a multiple of the block size,
\* was summed block by block
C25_Witness ==
    /\ Summed
    /\ ~ call.cmd_line
    /\ call.hr
    /\ call.content = <<"a", "b", "c">>
    /\ Len(call.chunks) >= 2
    /\ Len(call.chunks[Len(call.chunks)]) < block_size
    /\ ret.value[1] = hexdigest(<<"a", "b", "c">>)

\* C25 witness: a file exactly two blocks long took three reads
C25_WitnessMultiple ==
    /\ Summed
    /\ ~ call.cmd_line
    /\ Len(call.content) = 2 * block_size
    /\ Len(call.chunks) = 2
    /\ call.reads = 3
    /\ ret.value[1].md5_of = call.content

(***************************************************************************)
(* Properties of concurrent seeding                                        *)
(***************************************************************************)
\* the transactions that have committed
Committed == {p \in DOMAIN txn : txn[p].state = "committed"}

\* two inserted rows take the same primary key, or the same unique name
SameKey(x, y) ==
    /\ x[1] = y[1]
    /\ IF x[1] = "AcqFileTypes" THEN x[2] = y[2]
       ELSE x[2].id = y[2].id \/ (NameIsUnique(x[1]) /\ x[2].name = y[2].name)

InfoTablesOf(ftype) ==
    IF ftype.info_class = None THEN {}
    ELSE IF ftype.info_class = "cal_info_class"
    THEN {"DigitalGainFileInfo", "CalibrationGainFileInfo", "FlagInputFileInfo"}
    ELSE {ftype.info_class}

\* C23: an info row is of the type matching its file's FileType and is the
\* only one of its table for that file: in every reachable state no file has
\* an info row in a table of another file type than ArchiveFile.type, and no
\* file has two info rows in the same info table.
C23_InfoRowMatchesFile ==
    /\ \A r \in FileInfo : \A f \in ArchiveFile :
           f.id = r.file =>
               \E t \in FileType : f.type = <<t.id>> /\ r.model \in InfoTablesOf(t)
    /\ \A r1, r2 \in FileInfo :
           (r1.model = r2.model /\ r1.file = r2.file) => r1 = r2

\* C29: n_timed_files is the number of files in timed_files, so for an
\* acquisition whose only info rows are raw-ADC rows it is the number of its
\* raw-ADC files.
C29_CountsTimedFiles ==
    LastWrite("n_timed_files") =>
        /\ ret.value = <<Cardinality(timed_files_of(Tables, Args[1]))>>
        /\ (\A r \in FileInfo :
                (\E f \in ArchiveFile : f.id = r.file /\ f.acq = Args[1])
                    => r.model = "RawadcFileInfo")
               => ret.value = <<Cardinality(Selected(Tables, rawadc_files(Tables, Args[1])))>>

=============================================================================
